---- MODULE Spec2Model ----
(***************************************************************************)
(* A model of the terminal video creator: the encode-job supervisor of     *)
(* its three variants                                                      *)
(*   "new"   src/yt_creator.py        progress_screen + main               *)
(*   "old"   src/old/ytc.py           run_ffmpeg                           *)
(*   "linux" src/yt_creator_linux.py  run_ffmpeg (yt_creator_termux.py has *)
(*           the same control flow)                                        *)
(* run inside curses.wrapper, and the cursor handling of its menus and     *)
(* file pickers.                                                           *)
(***************************************************************************)
EXTENDS Integers, Sequences, FiniteSets, TLC

VARIABLES
    variant,     \* which script runs
    pc,          \* control position of the script
    term,        \* terminal mode: "normal" or "curses"
    exc,         \* exception being propagated: "none", "KeyboardInterrupt", "Exception"
    proc,        \* the encoder process: "none", "running", "exited"
    exitCode,    \* Popen.returncode as the OS knows it: <<>> (None) or <<code>>
    ignoresTerm, \* the encoder ignores SIGTERM
    pipe,        \* lines written to the captured stdout and not yet read
    emitted,     \* number of lines the encoder has written
    kbd,         \* keys typed and not yet read by getch
    pressed,     \* number of keys typed
    keysRead,    \* keys the supervisor has read since the launch
    sigs,        \* signals the supervisor has sent to the encoder
    launches,    \* number of subprocess.Popen calls for the encoder
    linesRead,   \* lines the supervisor has read from the pipe
    last_line,   \* run_ffmpeg's last_line
    rc,          \* progress_screen's return value: <<>> (not returned) or <<code>>
    msg,         \* progress_screen's own result line: <<>> or <<outcome>>
    reported,    \* outcome screens shown for the job, in order
    cancelled,   \* the supervisor acted on a cancel key
    drawFailed,  \* a drawing call of the supervisor has raised curses.error
    navKind,     \* which list widget runs: "SimpleMenu", "FilePicker", "FileSelector"
    items,       \* the list on screen, as the kinds of its entries
    cursor,      \* 0-based index of the highlighted entry
    navPc,       \* "start", "getch" (waiting for a key), "done", "raised"
    scroll_offset, \* first row of the list the last redraw showed
    visible_rows,  \* rows the terminal has for the list
    cwd,         \* the picker's current directory, as its depth below the root
    result,      \* what the widget's run returned
    last,        \* the last key a widget read and what it was read on
    lsPc,        \* the listing function: "idle", "call" or "return"
    listFn,      \* which listing function runs
    allowed_exts, \* its extension filter
    dirRaw,      \* the directory's entries as the filesystem holds them
    entries,     \* the listing it returned
    fn,          \* the function that is applied to arg
    fnPc,        \* "idle", "call", "return" or "raised"
    arg,         \* its arguments
    out          \* what it returned

supVars == <<variant, pc, term, exc, proc, exitCode, ignoresTerm, pipe, emitted,
             kbd, pressed, keysRead, sigs, launches, linesRead, last_line, rc,
             msg, reported, cancelled, drawFailed>>
navVars == <<navKind, items, cursor, navPc, scroll_offset, visible_rows, cwd,
             result, last>>
listVars == <<lsPc, listFn, allowed_exts, dirRaw, entries>>
fnVars == <<fn, fnPc, arg, out>>
vars == <<supVars, navVars, listVars, fnVars>>

----------------------------------------------------------------------------
(* Bounds of the model *)
MaxLines == 2    \* lines the encoder writes in one run
MaxKeys == 2     \* keys the user types during one run
MaxKbd == 1      \* typed keys the keyboard buffer holds unread
MaxItems == 4    \* longest list a widget shows
MaxRows == 3     \* most rows the terminal leaves for a list
MaxDepth == 2    \* deepest directory below the filesystem root
MaxEntries == 2  \* entries of a directory handed to the listing functions
MaxName == 2     \* characters of an audio file's base name

(* Program constants *)
CANCEL_RC == 130     \* progress_screen's return value on cancel
SIGTERM_RC == 0 - 15 \* Popen.returncode of a process ended by SIGTERM
SIGKILL_RC == 0 - 9  \* Popen.returncode of a process ended by SIGKILL

Variants == {"new", "old", "linux"}
ExitCodes == {0, 1, CANCEL_RC}
Keys == {"q", "enter", "c"}
\* lines of encoder output, without their newline, as character sequences
LineSet == {<<>>, <<"a">>, <<"b", " ">>}

----------------------------------------------------------------------------
(* str.strip() on a character sequence *)
RECURSIVE LStrip(_)
LStrip(s) == IF s # <<>> /\ Head(s) = " " THEN LStrip(Tail(s)) ELSE s

RECURSIVE RStrip(_)
RStrip(s) == IF s # <<>> /\ s[Len(s)] = " " THEN RStrip(SubSeq(s, 1, Len(s) - 1)) ELSE s

Strip(s) == RStrip(LStrip(s))

(* The outcome screens *)
\* kind: which screen; code: the exit code the screen shows (<<>>: none);
\* diag: the output line it shows; seen: the exit status it was chosen from
\* (<<>>: None, the encoder had not ended); by: the function that draws it
Outcome(kind, code, diag, seen, by) ==
    [kind |-> kind, code |-> code, diag |-> diag, seen |-> seen, by |-> by]

\* progress_screen line 362: msg = "Completado" if rc == 0 else "ffmpeg termino con codigo {rc}"
ScreenMsg(r) ==
    IF r = <<0>> THEN Outcome("Succeeded", <<>>, <<>>, r, "progress_screen")
    ELSE Outcome("Failed", r, <<>>, r, "progress_screen")

\* main lines 474-479 of yt_creator.py
MainReport(r) ==
    IF r = <<0>> THEN Outcome("Succeeded", <<>>, <<>>, r, "main")
    ELSE IF r = <<CANCEL_RC>> THEN Outcome("Cancelled", <<>>, <<>>, r, "main")
    ELSE Outcome("Failed", r, <<>>, r, "main")

\* run_ffmpeg's result screen: return_code = process.poll(); 0 is success,
\* anything else (None included) the error screen with last_line
ResultScreen(code, line) ==
    IF code = <<0>> THEN Outcome("Succeeded", <<>>, <<>>, code, "run_ffmpeg")
    ELSE Outcome("Failed", <<>>, line, code, "run_ffmpeg")

\* run_ffmpeg's except Exception handler: the internal-error screen
InternalErrorScreen == Outcome("Failed", <<>>, <<"!">>, <<>>, "handler")

\* the captured line run_ffmpeg keeps: if output: last_line = output.strip()
\* (a line read from the pipe ends in a newline, so it is never falsy)
KeepLine(prev, output) == Strip(output)

----------------------------------------------------------------------------
(* The encoder process and the user: the environment *)

\* Popen.poll(): None while the process runs
Poll == IF proc = "running" THEN <<>> ELSE exitCode

ProcEmit ==
    /\ proc = "running"
    /\ emitted < MaxLines
    /\ \E l \in LineSet : pipe' = Append(pipe, l)
    /\ emitted' = emitted + 1
    /\ UNCHANGED <<variant, pc, term, exc, proc, exitCode, ignoresTerm, kbd, pressed,
                   keysRead, sigs, launches, linesRead, last_line, rc, msg, reported,
                   cancelled, drawFailed, navVars, listVars, fnVars>>

\* the encoder ends by itself
ProcExit ==
    /\ proc = "running"
    /\ \E c \in ExitCodes : exitCode' = <<c>>
    /\ proc' = "exited"
    /\ UNCHANGED <<variant, pc, term, exc, ignoresTerm, pipe, emitted, kbd, pressed,
                   keysRead, sigs, launches, linesRead, last_line, rc, msg, reported,
                   cancelled, drawFailed, navVars, listVars, fnVars>>

\* the encoder ends because of a SIGTERM it does not ignore
ProcTermExit ==
    /\ proc = "running"
    /\ sigs # <<>>
    /\ ~ignoresTerm
    /\ exitCode' = <<SIGTERM_RC>>
    /\ proc' = "exited"
    /\ UNCHANGED <<variant, pc, term, exc, ignoresTerm, pipe, emitted, kbd, pressed,
                   keysRead, sigs, launches, linesRead, last_line, rc, msg, reported,
                   cancelled, drawFailed, navVars, listVars, fnVars>>

SupervisorPcs == {"readline", "oldPoll", "cancelSleep", "resultGetch", "handler",
                  "handlerGetch", "finalGetch", "mainReport", "mainGetch"}

UserPress ==
    /\ pc \in SupervisorPcs
    /\ pressed < MaxKeys
    /\ Len(kbd) < MaxKbd
    /\ \E k \in Keys : kbd' = Append(kbd, k)
    /\ pressed' = pressed + 1
    /\ UNCHANGED <<variant, pc, term, exc, proc, exitCode, ignoresTerm, pipe, emitted,
                   keysRead, sigs, launches, linesRead, last_line, rc, msg, reported,
                   cancelled, drawFailed, navVars, listVars, fnVars>>

----------------------------------------------------------------------------
(* Session frame: curses.wrapper(main) and the screens before the encode *)

\* curses.wrapper: initscr, cbreak, noecho, then main(stdscr)
WrapperEnter ==
    /\ pc = "wrapper"
    /\ term' = "curses"
    /\ pc' = "screens"
    /\ UNCHANGED <<variant, exc, proc, exitCode, ignoresTerm, pipe, emitted, kbd, pressed,
                   keysRead, sigs, launches, linesRead, last_line, rc, msg, reported,
                   cancelled, drawFailed, navVars, listVars, fnVars>>

\* main up to the encode: the pickers, menus and the confirmation end either
\* with every value chosen or with a cancel, on which main returns
Screens ==
    /\ pc = "screens"
    /\ \E go \in BOOLEAN : pc' = IF go THEN "launch" ELSE "wrapperFinally"
    /\ UNCHANGED <<variant, term, exc, proc, exitCode, ignoresTerm, pipe, emitted, kbd,
                   pressed, keysRead, sigs, launches, linesRead, last_line, rc, msg,
                   reported, cancelled, drawFailed, navVars, listVars, fnVars>>

\* the terminal mode curses.wrapper's finally clause leaves: nocbreak, echo, endwin
WrapperRestoreOnSuccess(e, t) == IF e = "none" THEN "normal" ELSE t
WrapperRestore(e, t) == "normal"

\* curses.wrapper's finally clause, then the except clauses of __main__
WrapperFinally ==
    /\ pc = "wrapperFinally"
    /\ term' = WrapperRestore(exc, term)
    /\ pc' = "ended"
    /\ UNCHANGED <<variant, exc, proc, exitCode, ignoresTerm, pipe, emitted, kbd, pressed,
                   keysRead, sigs, launches, linesRead, last_line, rc, msg, reported,
                   cancelled, drawFailed, navVars, listVars, fnVars>>

\* the positions inside run_ffmpeg's try statement
InTry == {"launch", "readline", "oldPoll", "handler", "handlerGetch", "finalGetch"}

\* where an exception raised at position p goes: run_ffmpeg's finally clause
\* when p is inside its try statement, else out of main to curses.wrapper
Unwind(v, p) == IF v \in {"old", "linux"} /\ p \in InTry THEN "finally" ELSE "wrapperFinally"

\* Ctrl-C: KeyboardInterrupt is no Exception, so run_ffmpeg's except clause
\* does not catch it and it reaches __main__; the one place that catches it
\* is the bare except of progress_screen (InterruptSwallowed)
Interrupt ==
    /\ pc \in ({"screens", "launch"} \cup SupervisorPcs) \ {"cancelSleep"}
    /\ exc = "none"
    /\ exc' = "KeyboardInterrupt"
    /\ pc' = Unwind(variant, pc)
    /\ UNCHANGED <<variant, term, proc, exitCode, ignoresTerm, pipe, emitted, kbd, pressed,
                   keysRead, sigs, launches, linesRead, last_line, rc, msg, reported,
                   cancelled, drawFailed, navVars, listVars, fnVars>>

----------------------------------------------------------------------------
(* The supervisor *)

\* subprocess.Popen(cmd, stdout=PIPE, ...)
Launch ==
    /\ pc = "launch"
    /\ launches' = launches + 1
    /\ proc' = "running"
    /\ exitCode' = <<>>
    /\ pc' = IF variant = "old" THEN "oldPoll" ELSE "readline"
    /\ UNCHANGED <<variant, term, exc, ignoresTerm, pipe, emitted, kbd, pressed, keysRead,
                   sigs, linesRead, last_line, rc, msg, reported, cancelled, drawFailed, navVars, listVars, fnVars>>

\* stdscr.nodelay(True); stdscr.getch(): the oldest typed key, or none
NoKey == "none"
Getch == IF kbd = <<>> THEN NoKey ELSE Head(kbd)
KbdAfterGetch == IF kbd = <<>> THEN kbd ELSE Tail(kbd)
KeysAfterGetch == IF kbd = <<>> THEN keysRead ELSE Append(keysRead, Head(kbd))

\* Popen.terminate() and Popen.kill() poll first and signal only a process
\* that has not ended
Signalled(s) == IF proc = "running" THEN Append(sigs, s) ELSE sigs

\* progress_screen lines 348-356: the keys that cancel the encode
NewCancelKeys == {"q"}

\* progress_screen line 352: if proc.poll() is None: proc.kill()
KillAlways(polled) == TRUE
KillNeeded(polled) == polled = <<>>

\* where progress_screen goes when the encoder has ended: its result screen
AfterExitRetry(r) == IF r = <<0>> THEN "resultGetch" ELSE "launch"
AfterExit(r) == "resultGetch"

\* progress_screen lines 294-356, one pass of the loop.  readline() blocks
\* until the encoder has written a line or has closed its stdout by ending,
\* so the pass begins only then.  (End of file from an encoder that has not
\* ended sleeps 0.05 s and starts over without a change of state.)
NewIteration ==
    /\ variant = "new"
    /\ pc = "readline"
    /\ \/ /\ pipe = <<>>
          /\ proc = "exited"
          /\ rc' = Poll
          /\ msg' = <<ScreenMsg(Poll)>>
          /\ pc' = AfterExit(Poll)
          /\ UNCHANGED <<exc, pipe, kbd, keysRead, sigs, linesRead, cancelled, drawFailed>>
       \/ /\ pipe # <<>>
          /\ pipe' = Tail(pipe)
          /\ linesRead' = Append(linesRead, Head(pipe))
          /\ \/ \* a drawing call raises curses.error: nothing catches it
                /\ drawFailed' = TRUE
                /\ exc' = "Exception"
                /\ pc' = "wrapperFinally"
                /\ UNCHANGED <<kbd, keysRead, sigs, cancelled>>
             \/ /\ kbd' = KbdAfterGetch
                /\ keysRead' = KeysAfterGetch
                /\ IF Getch \in NewCancelKeys
                   THEN /\ sigs' = Signalled("TERM")
                        /\ cancelled' = TRUE
                        /\ pc' = "cancelSleep"
                   ELSE /\ pc' = "readline"
                        /\ UNCHANGED <<sigs, cancelled>>
                /\ UNCHANGED <<exc, drawFailed>>
          /\ UNCHANGED <<rc, msg>>
    /\ UNCHANGED <<variant, term, proc, exitCode, ignoresTerm, emitted, pressed, launches,
                   last_line, reported, navVars, listVars, fnVars>>

\* progress_screen lines 351-356, after time.sleep(0.2)
NewCancelFinish ==
    /\ variant = "new"
    /\ pc = "cancelSleep"
    /\ IF KillNeeded(Poll)
       THEN /\ sigs' = Signalled("KILL")
            /\ proc' = "exited"
            /\ exitCode' = <<SIGKILL_RC>>
       ELSE UNCHANGED <<sigs, proc, exitCode>>
    /\ rc' = <<CANCEL_RC>>
    /\ pc' = "mainReport"
    /\ UNCHANGED <<variant, term, exc, ignoresTerm, pipe, emitted, kbd, pressed, keysRead,
                   launches, linesRead, last_line, msg, reported, cancelled, drawFailed, navVars, listVars, fnVars>>

\* progress_screen lines 349-356 when Ctrl-C arrives during time.sleep(0.2):
\* the bare "except: pass" of lines 354-355 catches the KeyboardInterrupt,
\* the poll and the kill of lines 352-353 are skipped, and line 356 returns
InterruptSwallowed ==
    /\ variant = "new"
    /\ pc = "cancelSleep"
    /\ rc' = <<CANCEL_RC>>
    /\ pc' = "mainReport"
    /\ UNCHANGED <<variant, term, exc, proc, exitCode, ignoresTerm, pipe, emitted, kbd,
                   pressed, keysRead, sigs, launches, linesRead, last_line, msg, reported,
                   cancelled, drawFailed, navVars, listVars, fnVars>>

\* progress_screen lines 366-370: wait for Enter, then return rc
NewResultKey ==
    /\ variant = "new"
    /\ pc = "resultGetch"
    /\ kbd # <<>>
    /\ kbd' = KbdAfterGetch
    /\ keysRead' = KeysAfterGetch
    /\ pc' = IF Getch = "enter" THEN "mainReport" ELSE "resultGetch"
    /\ UNCHANGED <<variant, term, exc, proc, exitCode, ignoresTerm, pipe, emitted, pressed,
                   sigs, launches, linesRead, last_line, rc, msg, reported, cancelled,
                   drawFailed, navVars, listVars, fnVars>>

\* main lines 474-479: the final message, drawn by show_message
NewMainReport ==
    /\ variant = "new"
    /\ pc = "mainReport"
    /\ reported' = Append(reported, MainReport(rc))
    /\ pc' = "mainGetch"
    /\ UNCHANGED <<variant, term, exc, proc, exitCode, ignoresTerm, pipe, emitted, kbd,
                   pressed, keysRead, sigs, launches, linesRead, last_line, rc, msg,
                   cancelled, drawFailed, navVars, listVars, fnVars>>

\* show_message lines 275-279: Enter or q ends it, and main returns
NewMainKey ==
    /\ variant = "new"
    /\ pc = "mainGetch"
    /\ kbd # <<>>
    /\ kbd' = KbdAfterGetch
    /\ keysRead' = KeysAfterGetch
    /\ pc' = IF Getch \in {"enter", "q"} THEN "wrapperFinally" ELSE "mainGetch"
    /\ UNCHANGED <<variant, term, exc, proc, exitCode, ignoresTerm, pipe, emitted, pressed,
                   sigs, launches, linesRead, last_line, rc, msg, reported, cancelled,
                   drawFailed, navVars, listVars, fnVars>>

\* run_ffmpeg of old/ytc.py lines 380-398, one pass of the loop.  The module
\* never imports select (lines 3-11), so line 387 raises NameError whenever
\* the encoder has not ended at line 382; lines 389-468 are never reached.
OldIteration ==
    /\ variant = "old"
    /\ pc = "oldPoll"
    /\ IF Poll # <<>>
       THEN /\ reported' = Append(reported, ResultScreen(Poll, last_line))
            /\ pc' = "finalGetch"
       ELSE /\ pc' = "handler"
            /\ UNCHANGED reported
    /\ UNCHANGED <<variant, term, exc, proc, exitCode, ignoresTerm, pipe, emitted, kbd,
                   pressed, keysRead, sigs, launches, linesRead, last_line, rc, msg,
                   cancelled, drawFailed, navVars, listVars, fnVars>>

\* run_ffmpeg of yt_creator_linux.py lines 245-315, one pass of the loop.
\* readline() blocks as in progress_screen; the key is looked at only after
\* a line was read and drawn.
LinuxIteration ==
    /\ variant = "linux"
    /\ pc = "readline"
    /\ \/ /\ pipe = <<>>
          /\ proc = "exited"
          /\ reported' = Append(reported, ResultScreen(Poll, last_line))
          /\ pc' = "finalGetch"
          /\ UNCHANGED <<pipe, kbd, keysRead, linesRead, last_line, drawFailed>>
       \/ /\ pipe # <<>>
          /\ pipe' = Tail(pipe)
          /\ linesRead' = Append(linesRead, Head(pipe))
          /\ last_line' = KeepLine(last_line, Head(pipe))
          /\ \/ \* an addstr call raises curses.error
                /\ drawFailed' = TRUE
                /\ pc' = "handler"
                /\ UNCHANGED <<kbd, keysRead, reported>>
             \/ /\ kbd' = KbdAfterGetch
                /\ keysRead' = KeysAfterGetch
                /\ IF Getch = "q"
                   THEN /\ reported' = Append(reported, ResultScreen(Poll, last_line'))
                        /\ pc' = "finalGetch"
                   ELSE /\ pc' = "readline"
                        /\ UNCHANGED reported
                /\ UNCHANGED drawFailed
    /\ UNCHANGED <<variant, term, exc, proc, exitCode, ignoresTerm, emitted, pressed, sigs,
                   launches, rc, msg, cancelled, navVars, listVars, fnVars>>

\* run_ffmpeg's except Exception clause: it draws the internal-error screen,
\* and its own drawing calls can raise
Handler ==
    /\ variant \in {"old", "linux"}
    /\ pc = "handler"
    /\ \/ /\ reported' = Append(reported, InternalErrorScreen)
          /\ pc' = "handlerGetch"
          /\ UNCHANGED <<exc, drawFailed>>
       \/ /\ drawFailed' = TRUE
          /\ exc' = "Exception"
          /\ pc' = "finally"
          /\ UNCHANGED reported
    /\ UNCHANGED <<variant, term, proc, exitCode, ignoresTerm, pipe, emitted, kbd, pressed,
                   keysRead, sigs, launches, linesRead, last_line, rc, msg, cancelled,
                   navVars, listVars, fnVars>>

\* main of old/ytc.py line 507 sets stdscr.timeout(100) and run_ffmpeg never
\* resets it on these paths, so its getch returns without a key
GetchTimesOut(v) == v = "old"

\* "press any key": stdscr.getch() after the result or internal-error screen
AnyKey ==
    /\ variant \in {"old", "linux"}
    /\ pc \in {"handlerGetch", "finalGetch"}
    /\ kbd # <<>> \/ GetchTimesOut(variant)
    /\ kbd' = KbdAfterGetch
    /\ keysRead' = KeysAfterGetch
    /\ pc' = "finally"
    /\ UNCHANGED <<variant, term, exc, proc, exitCode, ignoresTerm, pipe, emitted, pressed,
                   sigs, launches, linesRead, last_line, rc, msg, reported, cancelled,
                   drawFailed, navVars, listVars, fnVars>>

\* run_ffmpeg's finally clause: old/ytc.py terminates an encoder that still
\* runs; both call curses.endwin()
Finally ==
    /\ variant \in {"old", "linux"}
    /\ pc = "finally"
    /\ sigs' = IF variant = "old" THEN Signalled("TERM") ELSE sigs
    /\ term' = "normal"
    /\ pc' = "wrapperFinally"
    /\ UNCHANGED <<variant, exc, proc, exitCode, ignoresTerm, pipe, emitted, kbd, pressed,
                   keysRead, launches, linesRead, last_line, rc, msg, reported, cancelled,
                   drawFailed, navVars, listVars, fnVars>>

----------------------------------------------------------------------------
NavIdle ==
    /\ navKind = "none"
    /\ items = <<>>
    /\ cursor = 0
    /\ navPc = "done"
    /\ scroll_offset = 0
    /\ visible_rows = 1
    /\ cwd = 0
    /\ result = [type |-> "unset", int |-> 0, str |-> "", dir |-> 0]
    /\ last = [key |-> "none", read |-> "none", cwd |-> 0, choice |-> "none"]

\* no listing function is being checked
ListIdle ==
    /\ lsPc = "idle"
    /\ listFn = "none"
    /\ allowed_exts = [given |-> FALSE, exts |-> {}]
    /\ dirRaw = <<>>
    /\ entries = <<>>

\* no function is being applied
FnIdle ==
    /\ fn = "none"
    /\ fnPc = "idle"
    /\ arg = <<>>
    /\ out = <<>>

Init ==
    /\ variant \in Variants
    /\ pc = "wrapper"
    /\ term = "normal"
    /\ exc = "none"
    /\ proc = "none"
    /\ exitCode = <<>>
    /\ ignoresTerm \in BOOLEAN
    /\ pipe = <<>>
    /\ emitted = 0
    /\ kbd = <<>>
    /\ pressed = 0
    /\ keysRead = <<>>
    /\ sigs = <<>>
    /\ launches = 0
    /\ linesRead = <<>>
    /\ last_line = <<>>
    /\ rc = <<>>
    /\ msg = <<>>
    /\ reported = <<>>
    /\ cancelled = FALSE
    /\ drawFailed = FALSE
    /\ NavIdle
    /\ ListIdle
    /\ FnIdle

\* the steps of the script
SupNext ==
    \/ WrapperEnter
    \/ Screens
    \/ Launch
    \/ NewIteration
    \/ NewCancelFinish
    \/ NewResultKey
    \/ NewMainReport
    \/ NewMainKey
    \/ OldIteration
    \/ LinuxIteration
    \/ Handler
    \/ AnyKey
    \/ Finally
    \/ WrapperFinally

\* the steps of the encoder and of the user
EnvNext ==
    \/ ProcEmit
    \/ ProcExit
    \/ ProcTermExit
    \/ UserPress
    \/ Interrupt
    \/ InterruptSwallowed

Next == SupNext \/ EnvNext

Spec == Init /\ [][Next]_vars

----------------------------------------------------------------------------
(* Properties of the job supervisor *)

\* the outcome screens that name the job's result
Results == {reported[i] : i \in DOMAIN reported} \cup {msg[i] : i \in DOMAIN msg}

\* the script is past the supervisor, which returned without an exception
SupervisorReturned ==
    /\ launches >= 1
    /\ exc = "none"
    /\ pc \in {"mainReport", "mainGetch", "finally", "wrapperFinally", "ended"}

\* C1: a result reported from the exit status the encoder ended with by
\* itself is Succeeded for exit code 0 and Failed for every other exit code,
\* and the exit code a Failed screen shows is that exit code.
C1_OutcomeMapping ==
    \A o \in Results :
        (o.seen # <<>> /\ ~cancelled) =>
            IF o.seen = <<0>> THEN o.kind = "Succeeded"
            ELSE o.kind = "Failed" /\ (o.code # <<>> => o.code = o.seen)

\* C2: once the supervisor has returned from a cancel, the encoder no longer
\* runs, the supervisor's result is the cancel result and the outcome shown
\* is Cancelled, whether or not the encoder obeys SIGTERM.
C2_CancelStopsProcess ==
    (cancelled /\ SupervisorReturned) =>
        /\ proc # "running"
        /\ rc = <<CANCEL_RC>>
        /\ pc # "mainReport" => /\ Len(reported) = 1
                               /\ reported[1].kind = "Cancelled"

\* a cancel key was read and another key was read after it
CancelConfirmed ==
    \E i, j \in DOMAIN keysRead : i < j /\ keysRead[i] \in {"q", "c"}

\* C3: in a run that no exception unwinds, no signal is sent to the encoder
\* unless a cancel key was read and a confirmation was read after it.
C3_TwoPhaseCancel == (exc = "none" /\ sigs # <<>>) => CancelConfirmed

\* C4: while the encoder runs without writing and a cancel key waits in the
\* keyboard buffer, the poll loop is not blocked: the supervisor can take its
\* next step.
C4_LoopNotBlocked ==
    (/\ pc \in {"readline", "oldPoll"}
     /\ proc = "running"
     /\ pipe = <<>>
     /\ kbd # <<>>
     /\ Head(kbd) \in {"q", "c"})
        => ENABLED SupNext

C6_CancelDistinct ==
    \A i \in DOMAIN reported : reported[i].kind = "Cancelled" <=> cancelled

\* the last line of a sequence that is not blank, stripped; empty if none
RECURSIVE LastNonEmpty(_)
LastNonEmpty(ls) ==
    IF ls = <<>> THEN <<>>
    ELSE IF Strip(ls[Len(ls)]) # <<>> THEN Strip(ls[Len(ls)])
    ELSE LastNonEmpty(SubSeq(ls, 1, Len(ls) - 1))

\* C7: a Failed outcome shown for an encoder that ended with a non-zero exit
\* code, on a screen that shows an output line, shows the last non-empty
\* line read from the encoder.
C7_LastNonEmptyLine ==
    \A i \in DOMAIN reported :
        (/\ reported[i].kind = "Failed"
         /\ reported[i].by = "run_ffmpeg"
         /\ reported[i].seen # <<>>) =>
            reported[i].diag = LastNonEmpty(linesRead)

\* C8: as long as the user has pressed nothing and no drawing call has
\* failed, the supervisor has not aborted the job: no signal was sent, the
\* exception handler was not entered, and an encoder found ended with exit
\* code 0 is shown as Succeeded.
C8_NormalRunNotAborted ==
    (pressed = 0 /\ exc = "none" /\ ~drawFailed) =>
        /\ sigs = <<>>
        /\ pc \notin {"handler", "handlerGetch"}
        /\ \A o \in Results : o.by # "handler"

\* C9: when the program has ended, the terminal is in normal mode.
C9_TerminalRestored == pc = "ended" => term = "normal"

\* C9's case: the program ended by an exception raised after curses mode was
\* entered.
C9_Witness == pc = "ended" /\ exc # "none" /\ launches = 1

----------------------------------------------------------------------------
(* The list widgets: SimpleMenu and FilePicker of yt_creator.py, FileSelector *)
(* and select_from_list of old/ytc.py and yt_creator_linux.py.  An entry of  *)
(* a picker is "..", "d" (a directory) or "f" (a file that passed the        *)
(* filter); a menu holds option labels.  A directory is written as its depth *)
(* below the filesystem root.                                                *)

Max(a, b) == IF a >= b THEN a ELSE b
Min(a, b) == IF a <= b THEN a ELSE b

\* clamp of yt_creator.py: max(a, min(n, b))
clampNoFloor(n, a, b) == Min(n, b)
clampNoCeil(n, a, b) == Max(a, n)
clamp(n, a, b) == Max(a, Min(n, b))

\* FileSelector.navigate: max(0, min(cursor + direction, len(files) - 1))
navigate(c, direction, files) == Max(0, Min(c + direction, Len(files) - 1))

\* FileSelector.adjust_scroll of old/ytc.py, lines 148-152
adjust_scroll(cur, off, visible_lines) ==
    Max(0, IF cur < off THEN cur
           ELSE IF cur >= off + visible_lines THEN cur - visible_lines + 1
           ELSE off)

\* the local top of SimpleMenu.run and FilePicker.run (lines 134 and 175)
top(index, n, rows) == clamp(index - rows \div 2, 0, Max(0, n - rows))

\* the first row a redraw shows: top in yt_creator.py, scroll_offset in
\* old/ytc.py's FileSelector, row 0 in the widgets that do not scroll
FirstRow(kind, v, index, n, rows, off) ==
    IF kind \in {"SimpleMenu", "FilePicker"} THEN top(index, n, rows)
    ELSE IF kind = "FileSelector" /\ v = "old" THEN off
    ELSE 0

\* the filesystem root
Root == 0

\* os.path.abspath(os.path.join(cwd, "..")) and Path.parent: the root is its
\* own parent
ParentNoFloor(c) == c - 1
Parent(c) == Max(Root, c - 1)

\* a Python subscript seq[i] as a 1-based position: a negative i counts from
\* the end, and a position outside DOMAIN seq is an IndexError
PyIndex(seq, i) == IF i >= 0 THEN i + 1 ELSE Len(seq) + i + 1

RECURSIVE SeqsUpTo(_, _)
SeqsUpTo(S, n) ==
    IF n = 0 THEN {<<>>}
    ELSE LET shorter == SeqsUpTo(S, n - 1)
         IN shorter \cup {Append(q, x) : q \in {r \in shorter : Len(r) = n - 1}, x \in S}

\* what os.listdir / Path.iterdir of the directory at depth c can hold after
\* the filter: directories and files in any order of names; the deepest
\* directories hold no sub-directory
DirContents(c) ==
    SeqsUpTo(IF c < MaxDepth THEN {"d", "f"} ELSE {"f"}, MaxItems - 1)

\* how reading the directory at depth c can end: listed, PermissionError, or
\* FileNotFoundError because the directory was removed; the root stays
Reads(c) == IF c = Root THEN {"ok", "denied"} ELSE {"ok", "denied", "vanished"}

\* list_dir_entries: [] when os.listdir raises, else ".." and the entries
list_dir_entries(read, content) ==
    IF read # "ok" THEN <<>> ELSE <<"..">> \o content

\* FileSelector.update_files: [".."] on PermissionError, else ".." and the
\* entries; any other exception is not caught there
update_files(read, content) ==
    IF read = "denied" THEN <<"..">> ELSE <<"..">> \o content

\* the labels of an option list, AUDIO_BITRATE_OPTIONS and the like
Labels == <<"128k", "160k", "192k", "256k", "320k", "384k">>

\* the option lists a menu can be built with; main passes non-empty ones
OptionLists == {SubSeq(Labels, 1, n) : n \in 0..Min(MaxItems, Len(Labels))}

\* "esc" cancels every widget; "left" and "resize" stand for the other keys
NavKeys == {"up", "down", "enter", "left", "esc", "resize"}

\* what a widget's run returns
NoResult == [type |-> "unset", int |-> 0, str |-> "", dir |-> 0]
ReturnNone == [type |-> "None", int |-> 0, str |-> "", dir |-> 0]
ReturnInt(n) == [type |-> "int", int |-> n, str |-> "", dir |-> 0]
ReturnStr(s) == [type |-> "str", int |-> 0, str |-> s, dir |-> 0]
\* os.path.join(self.cwd, choice): the entry at index i of directory c
ReturnPath(c, i) == [type |-> "path", int |-> i, str |-> "", dir |-> c]

\* the value a cancel key makes run return: -1 in SimpleMenu, None elsewhere
CancelReturnZero(kind) ==
    IF kind = "SimpleMenu" THEN ReturnInt(0) ELSE ReturnNone
CancelReturn(kind) ==
    IF kind = "SimpleMenu" THEN ReturnInt(0 - 1) ELSE ReturnNone

\* where a widget is after a cancel key: "return None" / "return -1" ends run
AfterCancelBrowse(kind) == "getch"
AfterCancel(kind) == "done"

\* main's tests of a returned value: "if br_idx < 0: return" in yt_creator.py,
\* "if not resolution: return" and "if not image_path: return" elsewhere
CallerSeesCancel(r) ==
    CASE r.type = "int" -> r.int < 0
      [] r.type = "str" -> r.str = ""
      [] r.type = "None" -> TRUE
      [] OTHER -> FALSE

\* the entry under the cursor, "none" when there is none
Choice ==
    IF PyIndex(items, cursor) \in DOMAIN items
    THEN items[PyIndex(items, cursor)] ELSE "none"

\* the record of the key getch returned and of the directory read that
\* followed it
Seen(ch, rd) == [key |-> ch, read |-> rd, cwd |-> cwd, choice |-> Choice]

\* the heights getmaxyx can give at the redraw after a key: a new one after
\* KEY_RESIZE, else the same
Heights(ch) == IF ch = "resize" THEN 1..MaxRows ELSE {visible_rows}

\* the state of the supervisor while a widget runs
SupIdle ==
    /\ pc = "screens"
    /\ term = "curses"
    /\ exc = "none"
    /\ proc = "none"
    /\ exitCode = <<>>
    /\ ignoresTerm = FALSE
    /\ pipe = <<>>
    /\ emitted = 0
    /\ kbd = <<>>
    /\ pressed = 0
    /\ keysRead = <<>>
    /\ sigs = <<>>
    /\ launches = 0
    /\ linesRead = <<>>
    /\ last_line = <<>>
    /\ rc = <<>>
    /\ msg = <<>>
    /\ reported = <<>>
    /\ cancelled = FALSE
    /\ drawFailed = FALSE

\* SimpleMenu.__init__, FilePicker.__init__, FileSelector.__init__ and the
\* first lines of select_from_list, up to the first redraw
NavInit ==
    /\ SupIdle
    /\ ListIdle
    /\ FnIdle
    /\ result = NoResult
    /\ visible_rows \in 1..MaxRows
    /\ \/ /\ navKind = "SimpleMenu"
          /\ variant = "new"
          /\ items \in OptionLists
          /\ \E preselect \in 0..(MaxItems + 1) :
                cursor = clamp(preselect, 0, Max(0, Len(items) - 1))
          /\ scroll_offset = top(cursor, Len(items), visible_rows)
          /\ cwd = Root
          /\ last = [key |-> "none", read |-> "none", cwd |-> Root, choice |-> "none"]
          /\ navPc = "getch"
       \/ /\ navKind = "FilePicker"
          /\ variant = "new"
          /\ items = <<>>
          /\ cursor = 0
          /\ scroll_offset = 0
          /\ cwd \in Root..MaxDepth
          /\ last = [key |-> "none", read |-> "none", cwd |-> Root, choice |-> "none"]
          /\ navPc = "start"
       \/ /\ navKind = "FileSelector"
          /\ variant \in {"old", "linux"}
          /\ cwd \in Root..MaxDepth
          /\ \E rd \in {"ok", "denied"}, content \in DirContents(cwd) :
                /\ items = update_files(rd, content)
                /\ last = [key |-> "none", read |-> rd, cwd |-> Root, choice |-> "none"]
          /\ cursor = Min(0, Len(items) - 1)
          /\ scroll_offset = 0
          /\ navPc = "getch"
       \/ /\ navKind = "select_from_list"
          /\ variant \in {"old", "linux"}
          /\ items \in OptionLists
          /\ \E default_index \in 0..Max(0, Len(items) - 1) :
                cursor = IF variant = "old" THEN default_index ELSE 0
          /\ scroll_offset = 0
          /\ cwd = Root
          /\ last = [key |-> "none", read |-> "none", cwd |-> Root, choice |-> "none"]
          /\ navPc = "getch"

\* SimpleMenu.run lines 143-151, then the redraw of lines 124-142: one key
SimpleMenuKey ==
    /\ navKind = "SimpleMenu"
    /\ navPc = "getch"
    /\ \E ch \in NavKeys : \E h \in Heights(ch) :
          /\ last' = Seen(ch, "none")
          /\ visible_rows' = h
          /\ CASE ch = "esc" ->
                  /\ navPc' = AfterCancel(navKind)
                  /\ result' = CancelReturn(navKind)
                  /\ UNCHANGED <<cursor, scroll_offset>>
            [] ch = "up" ->
                  /\ cursor' = clamp(cursor - 1, 0, Len(items) - 1)
                  /\ scroll_offset' = top(cursor', Len(items), h)
                  /\ UNCHANGED <<navPc, result>>
            [] ch = "down" ->
                  /\ cursor' = clamp(cursor + 1, 0, Len(items) - 1)
                  /\ scroll_offset' = top(cursor', Len(items), h)
                  /\ UNCHANGED <<navPc, result>>
            [] ch = "enter" ->
                  /\ navPc' = "done"
                  /\ result' = ReturnInt(cursor)
                  /\ UNCHANGED <<cursor, scroll_offset>>
            [] OTHER ->
                  /\ scroll_offset' = top(cursor, Len(items), h)
                  /\ UNCHANGED <<cursor, navPc, result>>
    /\ UNCHANGED <<navKind, items, cwd, supVars, listVars, fnVars>>

\* select_from_list and select_from_list_with_default of old/ytc.py (lines
\* 258-269, 301-312) and select_from_list of yt_creator_linux.py (148-156)
SelectFromListKey ==
    /\ navKind = "select_from_list"
    /\ navPc = "getch"
    /\ \E ch \in NavKeys : \E h \in Heights(ch) :
          /\ last' = Seen(ch, "none")
          /\ visible_rows' = h
          /\ CASE ch = "esc" ->
                  /\ navPc' = AfterCancel(navKind)
                  /\ result' = CancelReturn(navKind)
                  /\ UNCHANGED cursor
            [] ch = "up" ->
                  /\ cursor' = Max(0, cursor - 1)
                  /\ UNCHANGED <<navPc, result>>
            [] ch = "down" ->
                  /\ cursor' = Min(Len(items) - 1, cursor + 1)
                  /\ UNCHANGED <<navPc, result>>
            [] ch = "enter" ->
                  IF PyIndex(items, cursor) \in DOMAIN items
                  THEN /\ navPc' = "done"
                       /\ result' = ReturnStr(items[PyIndex(items, cursor)])
                       /\ UNCHANGED cursor
                  ELSE \* options[cursor] raises IndexError
                       navPc' = "raised" /\ UNCHANGED <<cursor, result>>
            [] OTHER -> UNCHANGED <<cursor, navPc, result>>
    /\ UNCHANGED <<navKind, items, scroll_offset, cwd, supVars, listVars, fnVars>>

\* FilePicker.run lines 165-182: reload the listing of directory c, clamp the
\* index and redraw
FilePickerReload(ch, index, c, h) ==
    \E rd \in Reads(c), content \in DirContents(c) :
       /\ items' = list_dir_entries(rd, content)
       /\ cursor' = clamp(index, 0, Max(0, Len(items') - 1))
       /\ scroll_offset' = top(cursor', Len(items'), h)
       /\ cwd' = c
       /\ last' = Seen(ch, rd)
       /\ UNCHANGED <<navPc, result>>

\* FilePicker.run: the first pass of the loop up to getch
FilePickerStart ==
    /\ navKind = "FilePicker"
    /\ navPc = "start"
    /\ \E rd \in Reads(cwd), content \in DirContents(cwd) :
          /\ items' = list_dir_entries(rd, content)
          /\ cursor' = clamp(cursor, 0, Max(0, Len(items') - 1))
          /\ scroll_offset' = top(cursor', Len(items'), visible_rows)
          /\ last' = [last EXCEPT !.read = rd]
    /\ navPc' = "getch"
    /\ UNCHANGED <<navKind, cwd, visible_rows, result, supVars, listVars, fnVars>>

\* FilePicker.run lines 184-204, then lines 165-182 of the next pass: one
\* key, and the reload and redraw that follow it
FilePickerKey ==
    /\ navKind = "FilePicker"
    /\ navPc = "getch"
    /\ \E ch \in NavKeys : \E h \in Heights(ch) :
          /\ visible_rows' = h
          /\ CASE ch = "esc" ->
                  /\ navPc' = AfterCancel(navKind)
                  /\ result' = CancelReturn(navKind)
                  /\ last' = Seen(ch, "none")
                  /\ UNCHANGED <<items, cursor, scroll_offset, cwd>>
            [] ch = "up" ->
                  FilePickerReload(ch, clamp(cursor - 1, 0, Len(items) - 1), cwd, h)
            [] ch = "down" ->
                  FilePickerReload(ch, clamp(cursor + 1, 0, Len(items) - 1), cwd, h)
            [] ch = "left" ->
                  FilePickerReload(ch, 0, Parent(cwd), h)
            [] ch = "enter" ->
                  IF PyIndex(items, cursor) \notin DOMAIN items
                  THEN \* self.entries[self.index] raises IndexError
                       /\ navPc' = "raised"
                       /\ last' = Seen(ch, "none")
                       /\ UNCHANGED <<items, cursor, scroll_offset, cwd, result>>
                  ELSE IF Choice = ".."
                  THEN FilePickerReload(ch, 0, Parent(cwd), h)
                  ELSE IF Choice = "d"
                  THEN FilePickerReload(ch, 0, cwd + 1, h)
                  ELSE /\ navPc' = "done"
                       /\ result' = ReturnPath(cwd, cursor)
                       /\ last' = Seen(ch, "none")
                       /\ UNCHANGED <<items, cursor, scroll_offset, cwd>>
            [] OTHER -> FilePickerReload(ch, cursor, cwd, h)
    /\ UNCHANGED <<navKind, supVars, listVars, fnVars>>

\* FileSelector.enter on ".." or a directory: cursor = 0, scroll_offset = 0,
\* then update_files on directory c; an exception other than PermissionError
\* leaves enter and run
FileSelectorEnter(ch, c) ==
    \E rd \in Reads(c), content \in DirContents(c) :
       /\ cwd' = c
       /\ last' = Seen(ch, rd)
       /\ IF rd = "vanished"
          THEN /\ navPc' = "raised"
               /\ cursor' = 0
               /\ scroll_offset' = 0
               /\ UNCHANGED items
          ELSE /\ items' = update_files(rd, content)
               /\ cursor' = Min(0, Len(items') - 1)
               /\ scroll_offset' =
                     IF variant = "old"
                     THEN adjust_scroll(cursor', 0, visible_rows) ELSE 0
               /\ UNCHANGED navPc
       /\ UNCHANGED result

\* FileSelector.run of old/ytc.py (lines 210-226) and of yt_creator_linux.py
\* (lines 105-118) with navigate and enter: one key
FileSelectorKey ==
    /\ navKind = "FileSelector"
    /\ navPc = "getch"
    /\ \E ch \in NavKeys : \E h \in Heights(ch) :
          /\ visible_rows' = h
          /\ CASE ch = "esc" ->
                  /\ navPc' = AfterCancel(navKind)
                  /\ result' = CancelReturn(navKind)
                  /\ last' = Seen(ch, "none")
                  /\ UNCHANGED <<items, cursor, scroll_offset, cwd>>
            [] ch \in {"up", "down"} ->
                  /\ cursor' = navigate(cursor, IF ch = "up" THEN 0 - 1 ELSE 1, items)
                  /\ scroll_offset' =
                        IF variant = "old"
                        THEN adjust_scroll(cursor', scroll_offset, visible_rows)
                        ELSE 0
                  /\ last' = Seen(ch, "none")
                  /\ UNCHANGED <<items, cwd, navPc, result>>
            [] ch = "enter" ->
                  IF Choice = ".." THEN FileSelectorEnter(ch, Parent(cwd))
                  ELSE IF Choice = "d" THEN FileSelectorEnter(ch, cwd + 1)
                  ELSE /\ navPc' = "done"
                       /\ result' = ReturnPath(cwd, cursor)
                       /\ last' = Seen(ch, "none")
                       /\ UNCHANGED <<items, cursor, scroll_offset, cwd>>
            [] OTHER ->
                  /\ last' = Seen(ch, "none")
                  /\ UNCHANGED <<items, cursor, scroll_offset, cwd, navPc, result>>
    /\ UNCHANGED <<navKind, supVars, listVars, fnVars>>

NavNext ==
    \/ SimpleMenuKey
    \/ SelectFromListKey
    \/ FilePickerStart
    \/ FilePickerKey
    \/ FileSelectorKey

NavSpec == NavInit /\ [][NavNext]_vars

\* C10: whenever the list of a menu or picker is not empty, the cursor is an
\* index of the list: 0 <= cursor <= len(items) - 1.
C10_CursorInBounds ==
    items # <<>> => (0 <= cursor /\ cursor <= Len(items) - 1)

\* C10's case: the cursor sits on the last entry of the longest list, so one
\* more step down would leave the list, and a widget has handled keys.
C10_Witness ==
    /\ navPc = "getch"
    /\ Len(items) = MaxItems
    /\ cursor = MaxItems - 1
    /\ navKind = "FilePicker"

\* C11: at every redraw of a picker or menu with a non-empty list and at
\* least one visible row, the highlighted entry is among the rows drawn:
\* scroll_offset <= cursor < scroll_offset + visible_rows.
C11_CursorVisible ==
    (navPc = "getch" /\ items # <<>>) =>
        (scroll_offset <= cursor /\ cursor < scroll_offset + visible_rows)

\* the widgets that browse directories
Pickers == {"FilePicker", "FileSelector"}

\* C12: Enter on the parent marker moves the current directory to its
\* parent, Enter on a directory descends into it; in both cases the listing
\* is read again, the picker keeps waiting for keys and the cursor is 0.
\* Enter on a file makes run return that file's path in the current
\* directory, and no further key is handled.
C12_EnterSemantics ==
    (navKind \in Pickers /\ last.key = "enter") =>
        CASE last.choice = ".." ->
                /\ navPc = "getch"
                /\ cwd = Parent(last.cwd)
                /\ last.read # "none"
                /\ cursor = 0
          [] last.choice = "d" ->
                /\ navPc = "getch"
                /\ cwd = last.cwd + 1
                /\ last.read # "none"
                /\ cursor = 0
          [] last.choice = "f" ->
                /\ navPc = "done"
                /\ Choice = "f"
                /\ result = ReturnPath(last.cwd, cursor)
                /\ ~ENABLED NavNext
          [] OTHER -> TRUE

\* C13: a single cancel key ends the picker at any directory depth: run
\* returns None (which the caller takes for a cancel), no path is returned,
\* the directory is the one the key was read in, and after run has returned,
\* with a path or with None, no further key is handled.
C13_PickerCancel ==
    navKind \in Pickers =>
        /\ last.key = "esc" =>
              /\ navPc = "done"
              /\ result = ReturnNone
              /\ CallerSeesCancel(result)
              /\ cwd = last.cwd
        /\ navPc = "done" =>
              /\ ~ENABLED NavNext
              /\ result.type \in {"None", "path"}

\* C13's case: the cancel key was read below the root, in both kinds of
\* picker, and run has returned.
C13_Witness ==
    /\ navKind \in Pickers
    /\ last.key = "esc"
    /\ last.cwd = MaxDepth
    /\ navPc = "done"
    /\ Len(items) > 1

\* C14: Enter on the parent marker while the current directory is the
\* filesystem root raises nothing, leaves the current directory the root and
\* leaves the picker waiting for keys.
C14_ParentOfRoot ==
    (navKind \in Pickers /\ last.key = "enter" /\ last.choice = ".."
        /\ last.cwd = Root) =>
        (cwd = Root /\ navPc = "getch")

\* C14's case: Enter was read on ".." in the root, here in FilePicker with a
\* listing that was read again afterwards.
C14_Witness ==
    /\ navKind = "FilePicker"
    /\ last.key = "enter"
    /\ last.choice = ".."
    /\ last.cwd = Root
    /\ last.read = "ok"
    /\ navPc = "getch"

\* C15: after every reload of a picker's listing the parent marker is the
\* first entry when the current directory is not the filesystem root, and
\* the listing holds no parent marker when it is the root.
C15_ParentMarker ==
    (navKind \in Pickers /\ navPc = "getch") =>
        IF cwd = Root
        THEN \A i \in DOMAIN items : items[i] # ".."
        ELSE items # <<>> /\ items[1] = ".."

\* C18: when reading the current directory fails, the picker does not raise
\* and the listing is exactly the parent marker (empty is accepted at the
\* root); afterwards no key, Enter included, makes the picker raise.
C18_UnreadableDirectory ==
    navKind \in Pickers =>
        /\ navPc # "raised"
        /\ (navPc = "getch" /\ last.read \in {"denied", "vanished"}) =>
              (items = <<"..">> \/ (cwd = Root /\ items = <<>>))

\* the option menus
Menus == {"SimpleMenu", "select_from_list"}

\* the option a returned value stands for: SimpleMenu returns the index, main
\* subscripts its list with it; select_from_list returns the option itself
OptionOf(r) ==
    IF r.type = "int"
    THEN (IF PyIndex(items, r.int) \in DOMAIN items
          THEN items[PyIndex(items, r.int)] ELSE "none")
    ELSE r.str

\* C19: for a non-empty option list, Enter makes the menu return the option
\* under the cursor, cancel makes it return a value the caller tells from
\* every selection, and no index or option outside the list is returned.
C19_MenuResult ==
    (navKind \in Menus /\ items # <<>>) =>
        /\ navPc # "raised"
        /\ last.key = "enter" =>
              /\ navPc = "done"
              /\ result.type \in {"int", "str"}
              /\ result.type = "int" => (0 <= result.int /\ result.int < Len(items))
              /\ OptionOf(result) = last.choice
              /\ OptionOf(result) = Choice
              /\ ~CallerSeesCancel(result)
        /\ last.key = "esc" =>
              /\ navPc = "done"
              /\ CallerSeesCancel(result)
              /\ \A i \in DOMAIN items :
                    /\ result # ReturnInt(i - 1)
                    /\ result # ReturnStr(items[i])
        /\ navPc = "done" => last.key \in {"enter", "esc"}

\* C19's case: Enter was read with the cursor on the last option of the
\* longest list, after the cursor was moved, and the menu has returned.
C19_Witness ==
    /\ navKind \in Menus
    /\ Len(items) = MaxItems
    /\ last.key = "enter"
    /\ last.choice = items[MaxItems]
    /\ navPc = "done"

\* C20: an option menu built with an empty option list fails before any key
\* is read: it is never shown waiting for a key and never returns.
C20_EmptyMenuRejected ==
    (navKind \in Menus /\ items = <<>>) => navPc = "raised"

----------------------------------------------------------------------------
(* The listing functions: list_dir_entries of yt_creator.py and              *)
(* FileSelector.update_files of old/ytc.py and yt_creator_linux.py.  An      *)
(* entry of the directory is its kind ("dir", "file", or "other" for what is *)
(* neither: a FIFO, a socket, a dangling symlink) and its extension;         *)
(* dirRaw is in the order of sorted().                                       *)

\* extensions of directory entries, and those a filter is built from
Exts == {".mp3", ".MP3", ".txt"}
FilterExts == {".mp3", ".MP3"}

\* str.lower on Exts
Lower(x) ==
    IF x = ".MP3" THEN ".mp3" ELSE IF x = "MP4" THEN "mp4" ELSE x

DirEntries == [kind : {"dir", "file", "other"}, ext : Exts]

\* the filter argument: None (given = FALSE) or a set of extensions
FilterArgs ==
    {[given |-> FALSE, exts |-> {}]}
        \cup {[given |-> TRUE, exts |-> S] : S \in SUBSET FilterExts}

\* FileSelector.__init__: [ext.lower() for ext in extensions] if extensions else []
extensions_init(a) ==
    IF a.given /\ a.exts # {} THEN {Lower(x) : x \in a.exts} ELSE {}

\* list_dir_entries lines 97-105: is the entry appended
ListedNew(e, a) ==
    IF e.kind = "dir" THEN TRUE
    ELSE IF ~a.given THEN TRUE
    ELSE Lower(e.ext) \in a.exts

\* update_files: the conditions of the two comprehensions
ListedOld(e, extensions) ==
    IF extensions # {}
    THEN e.kind = "dir" \/ (e.kind = "file" /\ Lower(e.ext) \in extensions)
    ELSE TRUE

ListInit ==
    /\ SupIdle
    /\ NavIdle
    /\ FnIdle
    /\ lsPc = "call"
    /\ listFn \in {"list_dir_entries", "update_files"}
    /\ variant = (IF listFn = "list_dir_entries" THEN "new" ELSE "old")
    /\ allowed_exts \in FilterArgs
    /\ dirRaw \in SeqsUpTo(DirEntries, MaxEntries)
    /\ entries = <<>>

\* list_dir_entries(path, allowed_exts) on a directory holding dirRaw
ListDirEntries ==
    /\ lsPc = "call"
    /\ listFn = "list_dir_entries"
    /\ \E rd \in {"ok", "denied", "vanished"} :
          /\ entries' = list_dir_entries(rd,
                            SelectSeq(dirRaw, LAMBDA e : ListedNew(e, allowed_exts)))
          /\ lsPc' = IF rd = "ok" THEN "return" ELSE "failed"
    /\ UNCHANGED <<listFn, allowed_exts, dirRaw, supVars, navVars, fnVars>>

\* FileSelector.update_files on a directory holding dirRaw
UpdateFiles ==
    /\ lsPc = "call"
    /\ listFn = "update_files"
    /\ \E rd \in {"ok", "denied", "vanished"} :
          IF rd = "vanished"
          THEN lsPc' = "raised" /\ UNCHANGED entries
          ELSE /\ entries' = update_files(rd,
                                 SelectSeq(dirRaw, LAMBDA e :
                                     ListedOld(e, extensions_init(allowed_exts))))
               /\ lsPc' = IF rd = "ok" THEN "return" ELSE "failed"
    /\ UNCHANGED <<listFn, allowed_exts, dirRaw, supVars, navVars, fnVars>>

ListNext ==
    \/ ListDirEntries
    \/ UpdateFiles

ListSpec == ListInit /\ [][ListNext]_vars

\* the entry is in the listing, after the parent marker
Appears(e) == \E i \in 2..Len(entries) : entries[i] = e

\* C16: with a non-empty extension filter, every sub-directory of the
\* directory is listed whatever its name, and an entry that is not a
\* directory is listed if and only if its extension, compared without
\* regard to case, is in the filter.
C16_ExtensionFilter ==
    (lsPc = "return" /\ allowed_exts.given /\ allowed_exts.exts # {}) =>
        \A i \in DOMAIN dirRaw :
            LET e == dirRaw[i]
            IN IF e.kind = "dir" THEN Appears(e)
               ELSE Appears(e) <=>
                       Lower(e.ext) \in {Lower(x) : x \in allowed_exts.exts}

\* C17: an empty extension set is no filter: every entry that is not a
\* directory is listed.
C17_EmptyFilter ==
    (lsPc = "return" /\ allowed_exts.given /\ allowed_exts.exts = {}) =>
        \A i \in DOMAIN dirRaw : dirRaw[i].kind # "dir" => Appears(dirRaw[i])

----------------------------------------------------------------------------
(* The functions of the scripts that compute a value from their arguments.   *)
(* A text built by an f-string or by + is the sequence of its parts; a path  *)
(* is a stem and an extension ("" when it has none); a resolution            *)
(* "1280x720" is <<"1280", "x", "720">>.                                     *)

\* some of VIDEO_RESOLUTIONS / YOUTUBE_RESOLUTIONS
Resolutions == {<<"1280", "x", "720">>, <<"1920", "x", "1080">>}

\* AUDIO_CODECS of yt_creator.py and YOUTUBE_AUDIO_FORMATS of the others
AUDIO_CODECS == {"aac", "libmp3lame", "libopus"}
YOUTUBE_AUDIO_FORMATS == {"aac", "mp3", "vorbis", "opus"}

\* the output paths build_ffmpeg_cmd can be given
OutPaths == [stem : {"out"}, ext : {"", "mp4", "MP4", "webm", "mkv"}]

\* the characters of an audio file's base name
NameChars == {"a", "7", ".", "-", " ", "n~"}

\* build_ffmpeg_cmd lines 219-226: the container and the video codec
VideoCodec(acodec) == IF acodec = "libopus" THEN "libvpx-vp9" ELSE "libx264"
Container(acodec) == IF acodec = "libopus" THEN "webm" ELSE "mp4"

\* build_ffmpeg_cmd lines 221-226: extra_v
extra_v(acodec) ==
    IF acodec = "libopus"
    THEN << <<"-pix_fmt">>, <<"yuv420p">>, <<"-crf">>, <<"32">>, <<"-b:v">>, <<"0">> >>
    ELSE << <<"-tune">>, <<"stillimage">>, <<"-pix_fmt">>, <<"yuv420p">>,
            <<"-preset">>, <<"veryfast">>, <<"-movflags">>, <<"+faststart">> >>

\* build_ffmpeg_cmd lines 228-229: the suffix rewrite of the output path
SuffixKept(out_path, container) == out_path
SuffixRewrite(out_path, container) ==
    IF ~(out_path.ext # "" /\ Lower(out_path.ext) = container)
    THEN [stem |-> out_path.stem, ext |-> container]
    ELSE out_path

\* a path as the parts of its text
PathText(path) ==
    IF path.ext = "" THEN <<path.stem>> ELSE <<path.stem, ".", path.ext>>

\* the -vf argument: the f-string of line 231 (old/ytc.py line 335)
vf(w, h) ==
    <<"scale=", w, ":", h, ":force_original_aspect_ratio=decrease,pad=", w, ":", h,
      ":(ow-iw)/2:(oh-ih)/2">>

\* build_ffmpeg_cmd of yt_creator.py: the argument vector
build_ffmpeg_cmd(a) ==
    LET w == a.resolution[1]
        h == a.resolution[3]
    IN << <<"ffmpeg">>, <<"-y">>, <<"-loop">>, <<"1">>, <<"-framerate">>, <<"30">>,
          <<"-i">>, <<a.image_path>>, <<"-i">>, <<a.audio_path>>,
          <<"-c:v">>, <<VideoCodec(a.acodec)>>, <<"-vf">>, vf(w, h) >>
       \o extra_v(a.acodec)
       \o << <<"-c:a">>, <<a.acodec>>, <<"-b:a">>, <<a.abr_kbps, "k">>,
             <<"-ar">>, <<"48000">>, <<"-shortest">>, <<"-progress">>, <<"pipe:1">>,
             <<"-nostats">>,
             PathText(SuffixRewrite(a.out_path, Container(a.acodec))) >>

\* run_ffmpeg of old/ytc.py and yt_creator_linux.py: audio_codec_map
audio_codec_map(audio_format) ==
    CASE audio_format = "aac" -> "aac"
      [] audio_format = "mp3" -> "libmp3lame"
      [] audio_format = "vorbis" -> "libvorbis"
      [] audio_format = "opus" -> "libopus"
      [] OTHER -> "aac"

\* re.sub(r'[^a-zA-Z0-9._-]', '_', base_name) of old/ytc.py, one character
safe_char(c) == IF c \in {"a", "7", ".", "-", "_"} THEN c ELSE "_"

\* main: the name of the output file.  yt_creator.py: output_<int(time.time())>
\* .<container>; old/ytc.py: <safe_name>_yt_<W>p<H>.<format>.mp4;
\* yt_creator_linux.py: <base_name>_youtube_<W>p<H>.<format>.mp4
OutputName(v, base_name, resolution, audio_format, now) ==
    CASE v = "new" ->
            <<"output_", now, ".", Container(audio_format)>>
      [] v = "old" ->
            [i \in DOMAIN base_name |-> safe_char(base_name[i])]
                \o <<"_yt_", resolution[1], "p", resolution[3], ".", audio_format, ".", "mp4">>
      [] OTHER ->
            base_name
                \o <<"_youtube_", resolution[1], "p", resolution[3], ".", audio_format, ".", "mp4">>

\* run_ffmpeg of old/ytc.py (lines 315-341) and of yt_creator_linux.py
\* (lines 184-208): the argument vector
run_ffmpeg_cmd(a) ==
    LET w == a.resolution[1]
        h == a.resolution[3]
    IN << <<"ffmpeg">>, <<"-loglevel">>, <<"info">>, <<"-loop">>, <<"1">>,
          <<"-i">>, <<a.image_path>>, <<"-i">>, <<a.audio_path>>,
          <<"-c:v">>, <<"libx264">>, <<"-tune">>, <<"stillimage">>,
          <<"-c:a">>, <<audio_codec_map(a.audio_format)>>,
          <<"-b:a">>, (IF a.v = "old" THEN a.audio_bitrate ELSE <<"192", "k">>),
          <<"-pix_fmt">>, <<"yuv420p">>, <<"-vf">>, vf(w, h),
          <<"-shortest">>, <<"-movflags">>, <<"+faststart">> >>
       \o (IF a.v = "old" THEN << <<"-y">> >> ELSE <<>>)
       \o << a.output_path >>

\* the calls of build_ffmpeg_cmd
BuildCalls ==
    [fn : {"build_ffmpeg_cmd"}, v : {"new"}, image_path : {"i.png"},
     audio_path : {"a.mp3"}, out_path : OutPaths, resolution : Resolutions,
     acodec : AUDIO_CODECS, abr_kbps : {"128", "192"}]

\* the calls of run_ffmpeg, with the output path main builds
RunCalls ==
    {[fn |-> "run_ffmpeg", v |-> vv, image_path |-> "i.png", audio_path |-> "a.mp3",
      resolution |-> r, audio_format |-> f, audio_bitrate |-> <<b, "k">>,
      output_path |-> OutputName(vv, <<"a">>, r, f, "0")] :
        vv \in {"old", "linux"}, r \in Resolutions, f \in YOUTUBE_AUDIO_FORMATS,
        b \in {"128", "192"}}

\* int(time.time()) of two runs
RunTimes == {"1700000000", "1700000001"}

\* the calls of main's naming of the output file
NameCalls ==
    UNION {{[fn |-> "OutputName", v |-> vv, base_name |-> b, resolution |-> r,
             audio_format |-> f, now |-> t] :
                b \in SeqsUpTo(NameChars, MaxName) \ {<<>>}, r \in Resolutions,
                f \in (IF vv = "new" THEN AUDIO_CODECS ELSE YOUTUBE_AUDIO_FORMATS),
                t \in RunTimes} : vv \in Variants}

(* Progress and ETA.  Times are in tenths of a second and speeds in tenths,  *)
(* so 37.5 s is 375 and 2.0x is 20; an unknown value is <<>>, a known one    *)
(* <<n>>.                                                                    *)

\* progress_screen lines 327-336: the ETA the screen shows
eta_new(total_duration, out_time, speed) ==
    IF total_duration # <<>> /\ total_duration[1] > 0
    THEN LET remaining == Max(total_duration[1] - out_time, 0)
         IN <<(remaining * 10) \div (IF speed > 0 THEN speed ELSE 10)>>
    ELSE <<>>

\* run_ffmpeg of old/ytc.py (400-410) and yt_creator_linux.py (258-269):
\* percent, and the ETA from the elapsed time
percent_old(total_duration, current_time) ==
    IF total_duration # <<>> /\ total_duration[1] > 0
    THEN Min(100, (current_time * 100) \div total_duration[1])
    ELSE 0

eta_old(total_duration, current_time, elapsed) ==
    LET percent == percent_old(total_duration, current_time)
    IN IF percent > 0 /\ total_duration # <<>> /\ total_duration[1] # 0
       THEN LET remaining == (elapsed * 100) \div percent - elapsed
            IN <<IF remaining > 0 THEN remaining ELSE 0>>
       ELSE <<>>

EtaCalls ==
    [fn : {"eta"}, v : Variants, total_duration : {<<>>, <<0>>, <<1000>>},
     out_time : {0, 250, 1200}, speed : {0, 5, 20}, elapsed : {50, 100}]

(* The progress lines.  A line is its key, whether it holds "=", and its     *)
(* value; key and value are sequences of tokens, " " being blank space.      *)

ProgressKeys == {<<"out_time_ms">>, <<"speed">>, <<" ", "speed">>, <<"frame">>, <<"time">>}
ProgressVals ==
    {<<"1500000">>, <<"1500000", " ">>, <<"2.00", "x">>, <<"2.00">>, <<"garbage">>,
     <<"N/A">>, <<"x">>, <<"00:00:12.3">>, <<>>}
ProgressLines ==
    {[key |-> k, eq |-> e, val |-> v] :
        k \in ProgressKeys, e \in BOOLEAN, v \in ProgressVals}
Samples == [out_time : {0, 7}, speed : {10, 30}]

\* int(val) of line 309: does it parse, and its value
IntOk(val) == val = <<"1500000">>
IntValue(val) == 1500000

\* float(val[:-1]) of line 316
FloatOk(txt) == txt \in {<<"2.00">>, <<"1500000">>}
FloatTenths(txt) == IF txt = <<"2.00">> THEN 20 ELSE 15000000

\* int(val)/1_000_000.0 seconds, in tenths of a second
MicrosToTenths(n) == n \div 100000

\* progress_screen lines 307-311: the out_time_ms branch
ParseOutTimeOrZero(val, prev) == IF IntOk(val) THEN MicrosToTenths(IntValue(val)) ELSE 0
ParseOutTime(val, prev) == IF IntOk(val) THEN MicrosToTenths(IntValue(val)) ELSE prev

\* progress_screen lines 312-318: the speed branch
ParseSpeed(val, prev) ==
    IF val # <<>> /\ val[Len(val)] = "x" /\ FloatOk(SubSeq(val, 1, Len(val) - 1))
    THEN FloatTenths(SubSeq(val, 1, Len(val) - 1))
    ELSE prev

\* progress_screen lines 304-318: line.partition("="), strip, the branches
parse_new(line, sample) ==
    LET key == Strip(line.key)
        val == Strip(IF line.eq THEN line.val ELSE <<>>)
    IN IF key = <<"out_time_ms">>
       THEN [sample EXCEPT !.out_time = ParseOutTime(val, sample.out_time)]
       ELSE IF key = <<"speed">>
       THEN [sample EXCEPT !.speed = ParseSpeed(val, sample.speed)]
       ELSE sample

\* run_ffmpeg of old/ytc.py lines 391-398: time_regex on the line; the
\* match "time=00:00:12.3" is 12.3 s
parse_old(line, sample) ==
    IF Strip(line.key) = <<"time">> /\ line.eq /\ Strip(line.val) = <<"00:00:12.3">>
    THEN [sample EXCEPT !.out_time = 0 * 36000 + 0 * 600 + 123]
    ELSE sample

ParseCalls == [fn : {"parse"}, v : Variants, line : ProgressLines, sample : Samples]

(* The probes: what ffprobe did is "number" (it printed 192000), "decimal"   *)
(* (12.5), "N/A", "empty", "exit_error", or "no_binary" (it cannot be run).  *)

ProbeOutcomes == {"number", "decimal", "N/A", "empty", "exit_error", "no_binary"}

\* run_cmd of yt_creator.py: Popen raises when the binary is missing
run_cmd_raises(outcome) == outcome = "no_binary"
run_cmd_rc(outcome) == IF outcome = "exit_error" THEN 1 ELSE 0

\* ffprobe_audio_bitrate_kbps: int(out.strip()) // 1000 when rc == 0 and
\* out.strip().isdigit(), for the stream and then for the format
ffprobe_audio_bitrate_kbps(outcome) ==
    IF run_cmd_rc(outcome) = 0 /\ outcome = "number" THEN <<192000 \div 1000>> ELSE <<>>

\* ffprobe_duration_sec: float(out.strip()) when rc == 0, None when it fails
ffprobe_duration_sec(outcome) ==
    IF run_cmd_rc(outcome) = 0 /\ outcome \in {"number", "decimal"}
    THEN <<IF outcome = "number" THEN 1920000 ELSE 125>>
    ELSE <<>>

\* get_audio_info of old/ytc.py: bit_rate_kbps, None on any exception
get_audio_info(outcome) ==
    IF outcome = "number" THEN <<192000 \div 1000>> ELSE <<>>

\* get_audio_duration of old/ytc.py and yt_creator_linux.py
get_audio_duration(outcome) ==
    IF outcome \in {"number", "decimal"}
    THEN <<IF outcome = "number" THEN 1920000 ELSE 125>>
    ELSE <<>>

ProbeCalls ==
    {[fn |-> "probe", v |-> vv, what |-> w, outcome |-> o] :
        vv \in Variants, w \in {"bitrate", "duration"}, o \in ProbeOutcomes}
    \ {c \in [fn : {"probe"}, v : {"linux"}, what : {"bitrate"}, outcome : ProbeOutcomes] : TRUE}

(* The keys.  "LF" and "CR" are the codes 10 and 13, "ESC" is 27.            *)

RawKeys == {"ESC", "q", "KEY_UP", "KEY_DOWN", "k", "j", "KEY_ENTER", "LF", "CR",
            "KEY_LEFT", "c"}
ScreenKinds == {"picker", "menu", "confirm", "progress"}

\* what a screen of yt_creator.py does with a key: SimpleMenu.run 144-151,
\* FilePicker.run 185-204, show_message 277-280, progress_screen 347
key_new(screen, ch) ==
    CASE ch \in {"q", "ESC"} -> "cancel"
      [] screen \in {"picker", "menu"} /\ ch \in {"KEY_UP", "k"} -> "up"
      [] screen \in {"picker", "menu"} /\ ch \in {"KEY_DOWN", "j"} -> "down"
      [] screen = "picker" /\ ch = "KEY_LEFT" -> "parent"
      [] screen # "progress" /\ ch \in {"KEY_ENTER", "LF", "CR"} -> "select"
      [] OTHER -> "ignored"

\* old/ytc.py: FileSelector.run 214-226, select_from_list 259-269, the
\* confirmation of main 601-612, run_ffmpeg 442-466.  yt_creator_linux.py:
\* FileSelector.run 109-118, select_from_list 149-156, main 374-376,
\* run_ffmpeg 289-292
key_old(v, screen, ch) ==
    CASE screen \in {"picker", "menu"} /\ ch = "KEY_UP" -> "up"
      [] screen \in {"picker", "menu"} /\ ch = "KEY_DOWN" -> "down"
      [] screen \in {"picker", "menu"} /\ ch \in {"KEY_ENTER", "LF", "CR"} -> "select"
      [] screen \in {"picker", "menu"} /\ ch = "ESC" -> "cancel"
      [] screen = "confirm" /\ ch \in {"LF", "CR"} -> "select"
      [] screen = "confirm" /\ v = "old" /\ ch = "ESC" -> "cancel"
      [] screen = "confirm" /\ v = "linux" -> "cancel"
      [] screen = "progress" /\ v = "old" /\ ch = "c" -> "ask_cancel"
      [] screen = "progress" /\ ch = "q" -> "leave"
      [] OTHER -> "ignored"

KeyCalls == [fn : {"key"}, v : Variants, screen : ScreenKinds, ch : RawKeys]

FnInit ==
    /\ SupIdle
    /\ NavIdle
    /\ ListIdle
    /\ fnPc = "call"
    /\ out = <<>>
    /\ \/ arg \in BuildCalls
       \/ arg \in RunCalls
       \/ arg \in NameCalls
       \/ arg \in EtaCalls
       \/ arg \in ParseCalls
       \/ arg \in ProbeCalls
       \/ arg \in KeyCalls
    /\ fn = arg.fn
    /\ variant = arg.v

\* a function returns value
Return(value) ==
    /\ fnPc' = "return"
    /\ out' = value
    /\ UNCHANGED <<fn, arg, supVars, navVars, listVars>>

\* a function raises
Raise ==
    /\ fnPc' = "raised"
    /\ UNCHANGED <<fn, arg, out, supVars, navVars, listVars>>

BuildFfmpegCmd ==
    /\ fnPc = "call" /\ fn = "build_ffmpeg_cmd"
    /\ Return(build_ffmpeg_cmd(arg))

RunFfmpegCmd ==
    /\ fnPc = "call" /\ fn = "run_ffmpeg"
    /\ Return(run_ffmpeg_cmd(arg))

NameOutput ==
    /\ fnPc = "call" /\ fn = "OutputName"
    /\ Return(OutputName(arg.v, arg.base_name, arg.resolution, arg.audio_format, arg.now))

ComputeEta ==
    /\ fnPc = "call" /\ fn = "eta"
    /\ Return(IF arg.v = "new"
              THEN eta_new(arg.total_duration, arg.out_time, arg.speed)
              ELSE eta_old(arg.total_duration, arg.out_time, arg.elapsed))

ParseProgressLine ==
    /\ fnPc = "call" /\ fn = "parse"
    /\ Return(IF arg.v = "new" THEN parse_new(arg.line, arg.sample)
              ELSE parse_old(arg.line, arg.sample))

Probe ==
    /\ fnPc = "call" /\ fn = "probe"
    /\ IF arg.v = "new"
       THEN IF run_cmd_raises(arg.outcome) THEN Raise
            ELSE Return(IF arg.what = "bitrate"
                        THEN ffprobe_audio_bitrate_kbps(arg.outcome)
                        ELSE ffprobe_duration_sec(arg.outcome))
       ELSE Return(IF arg.what = "bitrate" THEN get_audio_info(arg.outcome)
                   ELSE get_audio_duration(arg.outcome))

DecodeKey ==
    /\ fnPc = "call" /\ fn = "key"
    /\ Return(IF arg.v = "new" THEN key_new(arg.screen, arg.ch)
              ELSE key_old(arg.v, arg.screen, arg.ch))

FnNext ==
    \/ BuildFfmpegCmd
    \/ RunFfmpegCmd
    \/ NameOutput
    \/ ComputeEta
    \/ ParseProgressLine
    \/ Probe
    \/ DecodeKey

FnSpec == FnInit /\ [][FnNext]_vars

(* ------------------------------------------------------------------------ *)
(* Properties of the argument vector and of the progress arithmetic          *)
(* ------------------------------------------------------------------------ *)

\* the argument that follows flag in an argument vector
ArgAfter(cmd, flag) == cmd[(CHOOSE i \in 1..(Len(cmd) - 1) : cmd[i] = <<flag>>) + 1]

\* the suffix of a file name given as text parts, "" when it has none
TextExt(text) ==
    IF Len(text) >= 2 /\ text[Len(text) - 1] = "." THEN text[Len(text)] ELSE ""

\* the audio codec a call asks for is Opus
AsksOpus(a) == IF a.v = "new" THEN a.acodec = "libopus" ELSE a.audio_format = "opus"
AsksAacOrMp3(a) ==
    IF a.v = "new" THEN a.acodec \in {"aac", "libmp3lame"}
    ELSE a.audio_format \in {"aac", "mp3"}

CmdBuilt == fnPc = "return" /\ fn \in {"build_ffmpeg_cmd", "run_ffmpeg"}

\* C21: in the argument vector, AAC or MP3 gives the container mp4 and the
\* default video codec libx264, Opus gives webm and libvpx-vp9; for 1280x720
\* and 192 the vector holds the scale/pad filter of 1280:720 and "192k".
C21_CodecContainer ==
    CmdBuilt =>
        /\ AsksAacOrMp3(arg) =>
              /\ Lower(TextExt(out[Len(out)])) = "mp4"
              /\ ArgAfter(out, "-c:v") = <<"libx264">>
        /\ AsksOpus(arg) =>
              /\ Lower(TextExt(out[Len(out)])) = "webm"
              /\ ArgAfter(out, "-c:v") = <<"libvpx-vp9">>
        /\ arg.resolution = <<"1280", "x", "720">> =>
              ArgAfter(out, "-vf") =
                  <<"scale=", "1280", ":", "720",
                    ":force_original_aspect_ratio=decrease,pad=", "1280", ":", "720",
                    ":(ow-iw)/2:(oh-ih)/2">>
        /\ (IF arg.v = "new" THEN arg.abr_kbps = "192" ELSE arg.audio_bitrate = <<"192", "k">>)
              => ArgAfter(out, "-b:a") = <<"192", "k">>

\* the container a call's program gives the output: build_ffmpeg_cmd looks it
\* up by codec, main of old/ytc.py and of yt_creator_linux.py writes ".mp4"
ChosenContainer(a) == IF a.v = "new" THEN Container(a.acodec) ELSE "mp4"

\* C22 as stated: the path placed last ends with "." + the container, letter
\* for letter.
C22_SuffixExact == CmdBuilt => TextExt(out[Len(out)]) = ChosenContainer(arg)

\* C22: the path placed last ends with "." + the container when letter case is
\* ignored; a requested path that already ends so is placed unchanged, and
\* rewriting the rewritten path changes nothing.
C22_SuffixRewrite ==
    CmdBuilt =>
        /\ Lower(TextExt(out[Len(out)])) = ChosenContainer(arg)
        /\ arg.v = "new" =>
              LET c == Container(arg.acodec)
                  once == SuffixRewrite(arg.out_path, c)
              IN /\ Lower(arg.out_path.ext) = c => out[Len(out)] = PathText(arg.out_path)
                 /\ SuffixRewrite(once, c) = once
                 /\ out[Len(out)] = PathText(once)

\* C22 witness: a vector was built for a requested path of another suffix
C22_Witness ==
    /\ CmdBuilt /\ fn = "build_ffmpeg_cmd"
    /\ arg.out_path.ext = "mkv" /\ arg.acodec = "libopus"
    /\ out[Len(out)] = <<"out", ".", "webm">>

EtaComputed == fnPc = "return" /\ fn = "eta"

\* C23: the ETA is unknown, never a number, whenever the total duration is
\* unknown or the processed time is 0, whatever the speed.
C23_EtaUnknown ==
    EtaComputed /\ (arg.total_duration = <<>> \/ arg.out_time = 0) => out = <<>>

\* the speed factor of a call: the parsed speed in yt_creator.py, the average
\* speed processed/elapsed where the program parses none
SpeedOf(a) ==
    IF a.v = "new" THEN a.speed
    ELSE IF a.elapsed > 0 THEN (a.out_time * 10) \div a.elapsed ELSE 0

\* C24: a shown ETA equals remaining / speedFactor, remaining being total minus
\* processed (taken as 0 when negative) and the speed floored at an epsilon
\* below 1.0; total 100 s, processed 25 s, speed 2.0 give 37.5 s.
C24_EtaValue ==
    EtaComputed /\ out # <<>> =>
        \E epsilon \in 1..9 :
            out[1] = (Max(arg.total_duration[1] - arg.out_time, 0) * 10)
                        \div Max(SpeedOf(arg), epsilon)

LineParsed == fnPc = "return" /\ fn = "parse"

\* the line of a call, blank space around key and value dropped
LineKey == Strip(arg.line.key)
LineVal == Strip(IF arg.line.eq THEN arg.line.val ELSE <<>>)

\* C25: the line out_time_ms=1500000 sets the processed time to 1.5 s and
\* leaves the speed; the line speed=2.00x sets the speed to 2.0 and leaves
\* the processed time.
C25_RecognisedKeys ==
    LineParsed =>
        /\ LineKey = <<"out_time_ms">> /\ LineVal = <<"1500000">> =>
              out = [out_time |-> 15, speed |-> arg.sample.speed]
        /\ LineKey = <<"speed">> /\ LineVal = <<"2.00", "x">> =>
              out = [out_time |-> arg.sample.out_time, speed |-> 20]

\* the well-formed lines of the protocol a program reads: the two keys of
\* ffmpeg's -progress output in yt_creator.py, the time= field of the
\* statistics line in the other two
WellFormedLine ==
    IF arg.v = "new"
    THEN \/ LineKey = <<"out_time_ms">> /\ LineVal = <<"1500000">>
         \/ LineKey = <<"speed">> /\ LineVal = <<"2.00", "x">>
    ELSE LineKey = <<"time">> /\ LineVal = <<"00:00:12.3">>

Degraded == {"N/A", "empty", "exit_error", "no_binary"}

\* C27: when the prober gives no number, exits with an error or cannot be
\* run, the probe returns "unknown" to its caller; it does not raise.
C27_ProbeDegrades ==
    fn = "probe" /\ fnPc # "call" /\ arg.outcome \in Degraded =>
        fnPc = "return" /\ out = <<>>

KeyDecoded == fnPc = "return" /\ fn = "key"

\* C28: at every screen Escape and 'q' cancel; in every picker and menu the
\* arrows and 'k'/'j' move the cursor up and down and Enter/Return selects.
C28_Keys ==
    KeyDecoded =>
        /\ arg.ch \in {"ESC", "q"} => out = "cancel"
        /\ arg.screen \in {"picker", "menu"} =>
              /\ arg.ch \in {"KEY_UP", "k"} => out = "up"
              /\ arg.ch \in {"KEY_DOWN", "j"} => out = "down"
              /\ arg.ch \in {"KEY_ENTER", "LF", "CR"} => out = "select"

NameBuilt == fnPc = "return" /\ fn = "OutputName"

\* the characters of NameChars that the pattern [a-zA-Z0-9._-] allows
AllowedChars == {"a", "7", ".", "-", "_"}

\* C30: the output name is the same at whatever time the session runs, given
\* the audio file, the resolution and the audio format; and it begins with the
\* audio base name in which every character outside the allowed set is "_".
C30_OutputNaming ==
    NameBuilt =>
        /\ \A t \in RunTimes :
              OutputName(arg.v, arg.base_name, arg.resolution, arg.audio_format, t) = out
        /\ Len(out) >= Len(arg.base_name)
        /\ \A i \in DOMAIN arg.base_name :
              out[i] = (IF arg.base_name[i] \in AllowedChars THEN arg.base_name[i] ELSE "_")

(* ------------------------------------------------------------------------ *)
(* The cursor over a reload                                                  *)
(* ------------------------------------------------------------------------ *)

\* a picker handled the key last'.key and goes on to its next pass, in the
\* same directory
SameDirPass ==
    /\ navKind \in Pickers
    /\ navPc = "getch"
    /\ navPc' = "getch"
    /\ cwd' = cwd

\* the index the cursor has when the listing is read again: the cursor, moved
\* by one within the old listing when the key was up or down
IndexBeforeReload ==
    CASE last'.key = "up" -> Max(0, Min(cursor - 1, Len(items) - 1))
      [] last'.key = "down" -> Max(0, Min(cursor + 1, Len(items) - 1))
      [] OTHER -> cursor

\* the cursor keeps the index if the new listing has it, else takes the last
\* index of the new listing
KeptOrClamped ==
    items' # <<>> =>
        /\ cursor' = Min(IndexBeforeReload, Len(items') - 1)
        /\ cursor' \in 0..(Len(items') - 1)

\* C29 as stated: over every pass of a picker that does not change the
\* directory, the cursor keeps its index if it is still valid and else is
\* clamped to the last valid index.
C29_ReloadAnyKey == [][SameDirPass => KeptOrClamped]_vars

\* C29: over every pass of a picker that does not change the directory and
\* was not asked for by the go-to-parent key, the cursor keeps its index if it
\* is still valid and else is clamped to the last valid index.
C29_ReloadKeepsCursor ==
    [][SameDirPass /\ last'.key # "left" => KeptOrClamped]_vars

\* C29 witness: a picker has read its directory again after a key that asks
\* for nothing else, and the cursor is on the last entry, not the first
C29_Witness ==
    /\ navKind = "FilePicker" /\ navPc = "getch"
    /\ last.key = "resize" /\ last.cwd = cwd
    /\ cursor > 0 /\ cursor = Len(items) - 1 /\ Len(items) < MaxItems

(* ------------------------------------------------------------------------ *)
(* The teardown of the encoder                                               *)
(* ------------------------------------------------------------------------ *)

\* this step sends the signal s to the encoder
Sends(s) == sigs' = Append(sigs, s)

\* a step of the escalation: the forced kill goes, at the end of the grace
\* period, to an encoder that was sent the graceful signal and still runs;
\* an encoder that has ended is left as it ended
EscalationStep ==
    /\ Sends("KILL") =>
          /\ pc = "cancelSleep"
          /\ sigs = <<"TERM">>
          /\ proc = "running"
    /\ proc = "exited" => (proc' = "exited" /\ exitCode' = exitCode)

\* the grace period ends whatever the encoder does: the step after it does
\* not wait for the encoder
GraceBounded == pc = "cancelSleep" => ENABLED NewCancelFinish

\* C31: after a cancel the supervisor sends the graceful signal first, waits
\* a bounded grace period, and sends the forced kill only to an encoder that
\* still runs when the period ends: never before the graceful signal, never
\* to an encoder that ended during the period.
C31_EscalationOrder == [](GraceBounded) /\ [][EscalationStep]_vars

\* C31 witness: an encoder that ignores the graceful signal was killed after
\* the grace period
C31_Witness ==
    /\ cancelled /\ ignoresTerm
    /\ sigs = <<"TERM", "KILL">>
    /\ proc = "exited" /\ exitCode = <<SIGKILL_RC>>

\* the poll loop of old/ytc.py runs, the encoder runs, and the cancel key is
\* the next key getch will return; no key of Keys is a "yes", so the
\* confirmation that follows is declined
CancelKeyWaits ==
    /\ variant = "old"
    /\ pc = "oldPoll"
    /\ proc = "running"
    /\ kbd # <<>> /\ Head(kbd) = "c"

\* C32: in old/ytc.py, when the user presses the cancel key and does not
\* answer yes, no signal is sent to the encoder and the supervisor stays in
\* its poll loop with the encoder running.
C32_DeclinedCancel ==
    [][(CancelKeyWaits /\ exc' = "none") =>
          (pc' = "oldPoll" /\ sigs' = sigs /\ reported' = reported)]_vars

\* C33: the success or error screen of the supervisor is shown only for an
\* encoder that has ended: the exit status it is chosen from is never None.
C33_ResultAfterExit ==
    \A i \in DOMAIN reported :
        reported[i].by \in {"run_ffmpeg", "progress_screen", "main"} =>
            reported[i].seen # <<>>

\* run_ffmpeg has returned to main without an exception going on
RunFfmpegReturned ==
    /\ variant \in {"old", "linux"}
    /\ launches >= 1
    /\ exc = "none"
    /\ pc \in {"wrapperFinally", "ended"}

\* C34: when run_ffmpeg has returned, by whatever path, the encoder it
\* launched no longer runs.
C34_NoOrphan == RunFfmpegReturned => proc # "running"

(* ------------------------------------------------------------------------ *)
(* main: the screens before the encode, one after the other.  fnPc is the    *)
(* screen main is at, arg the screens left behind with what each returned.   *)
(* ------------------------------------------------------------------------ *)

\* the programs whose main probes the audio before its menus
MainVariants == {"new", "old"}

\* the screens of main in the order of its statements: yt_creator.py lines
\* 379-457, old/ytc.py lines 509-613
MainScreens(v) ==
    IF v = "new"
    THEN <<"image", "audio", "probe", "info", "bitrate", "codec", "resolution", "confirm">>
    ELSE <<"image", "audio", "probe", "info", "bitrate", "resolution", "format", "confirm">>

\* the statement after screen s: the next screen, or the call of the encode
NextScreen(v, s) ==
    LET i == CHOOSE k \in DOMAIN MainScreens(v) : MainScreens(v)[k] = s
    IN IF i = Len(MainScreens(v)) THEN "encode" ELSE MainScreens(v)[i + 1]

\* what a screen can return: a picker a path, nothing (cancel), or a path
\* that os.path.exists denies (yt_creator.py 384, 392), or it raises; a menu
\* an option or nothing; the info screen and the confirmation yes or no
Answers(v, s) ==
    CASE s \in {"image", "audio"} ->
            {"path", "cancel", "raised"} \cup (IF v = "new" THEN {"missing"} ELSE {})
      [] s = "probe" -> ProbeOutcomes
      [] s = "info" -> IF v = "new" THEN {"yes", "cancel"} ELSE {"key"}
      [] s = "confirm" -> {"yes", "cancel"}
      [] OTHER -> {"option0", "option1", "cancel"}

\* the answers main goes on with
GoOn == {"path", "yes", "key", "option0", "option1"} \cup ProbeOutcomes

\* where main goes after screen s returned answer: on to the next statement,
\* or out by return, or out by the exception
AfterAnswerGoOn(v, s, answer) == NextScreen(v, s)
AfterAnswer(v, s, answer) ==
    IF answer = "raised" \/ (s = "probe" /\ v = "new" /\ run_cmd_raises(answer))
    THEN "raised"
    ELSE IF answer \in GoOn THEN NextScreen(v, s)
    ELSE "returned"

MainInit ==
    /\ SupIdle
    /\ NavIdle
    /\ ListIdle
    /\ variant \in MainVariants
    /\ fn = "main"
    /\ fnPc = "image"
    /\ arg = <<>>
    /\ out = <<>>

\* one screen of main: it is shown, returns answer, and main tests it
MainScreen ==
    /\ fn = "main"
    /\ pc = "screens"
    /\ fnPc \in {MainScreens(variant)[i] : i \in DOMAIN MainScreens(variant)}
    /\ \E answer \in Answers(variant, fnPc) :
          /\ arg' = Append(arg, [screen |-> fnPc, answer |-> answer])
          /\ fnPc' = AfterAnswer(variant, fnPc, answer)
    /\ pc' = CASE fnPc' = "encode" -> "launch"
               [] fnPc' \in {"returned", "raised"} -> "wrapperFinally"
               [] OTHER -> pc
    /\ exc' = IF fnPc' = "raised" THEN "Exception" ELSE exc
    /\ UNCHANGED <<variant, term, proc, exitCode, ignoresTerm, pipe, emitted, kbd, pressed,
                   keysRead, sigs, launches, linesRead, last_line, rc, msg, reported,
                   cancelled, drawFailed, fn, out, navVars, listVars>>

MainNext ==
    \/ MainScreen
    \/ Launch

MainSpec == MainInit /\ [][MainNext]_vars

\* the place of a screen in the order image picker, audio picker, audio
\* probe, option menus, confirmation
Rank(s) ==
    CASE s = "image" -> 1
      [] s = "audio" -> 2
      [] s \in {"probe", "info"} -> 3
      [] s = "confirm" -> 5
      [] OTHER -> 4

\* C35: the screens are visited in the order image picker, audio picker,
\* audio probe, option menus, confirmation; the encoder is launched at most
\* once and only after every one of them returned a selection and the
\* confirmation was accepted; after a cancel at any screen the session ends
\* and no encoder is launched.
C35_OrderAndGating ==
    fn = "main" =>
        /\ \A i, j \in DOMAIN arg : i < j =>
              /\ Rank(arg[i].screen) <= Rank(arg[j].screen)
              /\ arg[i].screen # arg[j].screen
        /\ launches <= 1
        /\ (launches = 1 \/ pc = "launch") =>
              /\ \A i \in DOMAIN arg : arg[i].answer \notin {"cancel", "missing", "raised"}
              /\ \A r \in 1..5 : \E i \in DOMAIN arg : Rank(arg[i].screen) = r
              /\ Cardinality({i \in DOMAIN arg : Rank(arg[i].screen) = 4}) = 3
              /\ arg[Len(arg)] = [screen |-> "confirm", answer |-> "yes"]
        /\ (\E i \in DOMAIN arg : arg[i].answer = "cancel") =>
              /\ launches = 0
              /\ pc = "wrapperFinally"
              /\ arg[Len(arg)].answer = "cancel"

\* C35 witness: every screen returned a selection, the confirmation was
\* accepted and the encoder was launched
C35_Witness ==
    /\ fn = "main"
    /\ launches = 1 /\ proc = "running"
    /\ Len(arg) = 8
    /\ arg[5].answer = "option1"

----------------------------------------------------------------------------
(* The viewport *)

\* the widgets that scroll their list: SimpleMenu and FilePicker of
\* yt_creator.py, FileSelector of old/ytc.py
Scrolls == navKind \in {"SimpleMenu", "FilePicker"} \/ (navKind = "FileSelector" /\ variant = "old")

\* C36: at every redraw of a scrolling widget with n items, v >= 1 visible
\* rows and cursor c, the first row drawn is
\* max(0, min(c - v div 2, max(0, n - v))): the cursor is kept centered in
\* a long list and the offset never exceeds n - v.
C36_CenteredViewport ==
    (Scrolls /\ navPc = "getch" /\ visible_rows >= 1) =>
        LET n == Len(items)
            most == IF n - visible_rows > 0 THEN n - visible_rows ELSE 0
            want == cursor - visible_rows \div 2
        IN scroll_offset = (IF want < 0 THEN 0 ELSE IF want > most THEN most ELSE want)

----------------------------------------------------------------------------
(* Drawing on a terminal of h rows and w columns.  A text is its length.     *)
(* variant "new" stands for SimpleMenu.run of yt_creator.py, "old" and       *)
(* "linux" for FileSelector.draw/run of old/ytc.py and yt_creator_linux.py.  *)

\* the terminal sizes getmaxyx can give
Rows == {1, 3, 8, 24}
Cols == {1, 3, 60, 80}

\* the length of text[:k] in Python: a negative k counts from the end
Slice(len, k) == IF k >= 0 THEN Min(len, k) ELSE Max(0, len + k)

\* window.addnstr(y, x, text, n) does not raise curses.error: the cell
\* (y, x) is inside the window and the characters written (all of them when
\* n is negative) end before the lower right corner
addnstr(h, w, y, x, len, n) ==
    /\ y >= 0 /\ y < h
    /\ x >= 0 /\ x < w
    /\ (IF n < 0 THEN len ELSE Min(len, n)) < (h - y) * w - x

\* window.addstr(y, x, text)
addstr(h, w, y, x, len) == addnstr(h, w, y, x, len, 0 - 1)

\* the lengths of the fixed texts
HelpLineLen == 40
OldTitleLen == 25
OldPrefixLen == 3
OldPathPrefixLen == 2
OldInstrLen == 60
LinuxTitleLen == 23
LinuxPrefixLen == 2
LinuxPathPrefixLen == 12
LinuxInstrLen == 54
MenuTitleLens == {29, 31, 50}
PathLens == {1, 30}

\* SimpleMenu.run lines 124-142: no drawing call raises
SimpleMenuDraw(h, w, n, title) ==
    /\ addnstr(h, w, 0, 0, Slice(title, w - 1), w - 1)
    /\ addnstr(h, w, 1, 0, Slice(HelpLineLen, w - 1), w - 1)
    /\ \A i \in 0..(Min(h - 4, n) - 1) :
          addnstr(h, w, 3 + i, 0, Slice(MaxName, w - 1), w - 1)

\* FileSelector.draw of old/ytc.py, lines 173-208
OldFileSelectorDraw(h, w, n, path) ==
    /\ addnstr(h, w, 1, 2, Slice(OldTitleLen, w - 4), w - 4)
    /\ addnstr(h, w, 2, 2, Slice(OldPathPrefixLen + path, w - 4), w - 4)
    /\ \A idx \in 0..(Slice(n, h - 6) - 1) :
          4 + idx < h - 2 =>
              addnstr(h, w, 4 + idx, 2, Slice(OldPrefixLen + MaxName, w - 4), w - 4)
    /\ addnstr(h, w, h - 1, 2, Slice(OldInstrLen, w - 4), w - 4)

\* FileSelector.draw of yt_creator_linux.py, lines 77-104
LinuxFileSelectorDraw(h, w, n, path) ==
    /\ addstr(h, w, 1, 2, LinuxTitleLen)
    /\ addstr(h, w, 2, 2, LinuxPathPrefixLen + path)
    /\ \A idx \in 0..(n - 1) :
          4 + idx < h - 2 => addstr(h, w, 4 + idx, 2, LinuxPrefixLen + MaxName)
    /\ addstr(h, w, h - 1, 2, LinuxInstrLen)

\* the redraw at the top of the widget's loop
Draw(v, a) ==
    CASE v = "new" -> SimpleMenuDraw(a.h, a.w, a.n, a.title)
      [] v = "old" -> OldFileSelectorDraw(a.h, a.w, a.n, a.path)
      [] OTHER -> LinuxFileSelectorDraw(a.h, a.w, a.n, a.path)

Size(a) == [h |-> a.h, w |-> a.w]

\* the widget after its first redraw, waiting in getch
ScreenInit ==
    /\ SupIdle
    /\ NavIdle
    /\ ListIdle
    /\ variant \in Variants
    /\ fn = "run"
    /\ fnPc = "getch"
    /\ \E h \in Rows, w \in Cols, n \in 0..MaxEntries, t \in MenuTitleLens, p \in PathLens :
          /\ arg = [key |-> "none", h |-> h, w |-> w, n |-> n,
                    title |-> IF variant = "new" THEN t ELSE 0,
                    path |-> IF variant = "new" THEN 0 ELSE p]
          /\ Draw(variant, arg)
    /\ out = <<Size(arg)>>

\* the loop of run comes round to its redraw after key ch, the terminal
\* being of size h x w: a curses.error of a drawing call leaves run
Redraw(ch, h, w) ==
    /\ arg' = [arg EXCEPT !.key = ch, !.h = h, !.w = w]
    /\ IF Draw(variant, arg')
       THEN fnPc' = "getch" /\ out' = <<Size(arg')>>
       ELSE fnPc' = "raised" /\ out' = out
    /\ UNCHANGED <<fn, supVars, navVars, listVars>>

\* getch returns KEY_RESIZE: SimpleMenu.run and the FileSelector.run of
\* yt_creator_linux.py match no branch, old/ytc.py clears and continues
ScreenResize ==
    /\ fn = "run"
    /\ fnPc = "getch"
    /\ \E h \in Rows, w \in Cols : Redraw("resize", h, w)

\* an arrow key, then the redraw; or the cancel key, and run returns
ScreenKey ==
    /\ fn = "run"
    /\ fnPc = "getch"
    /\ \/ Redraw("down", arg.h, arg.w)
       \/ /\ arg' = [arg EXCEPT !.key = "esc"]
          /\ fnPc' = "returned"
          /\ UNCHANGED <<out, fn, supVars, navVars, listVars>>

ScreenNext ==
    \/ ScreenResize
    \/ ScreenKey

ScreenSpec == ScreenInit /\ [][ScreenNext]_vars

\* C37: after a resize event the screen has been drawn again at the new
\* size and the widget waits for the next key, whatever the new height and
\* width are; run is not left by an error.
C37_ResizeRedraws ==
    (fn = "run" /\ arg.key = "resize") => (fnPc = "getch" /\ out = <<Size(arg)>>)

----------------------------------------------------------------------------
(* The preselection of the bitrate menu.  A bitrate is a number of kbps,     *)
(* <<>> when the probe gave none; "128k" of old/ytc.py is written 128.       *)

\* the largest probed bitrate considered
MaxKbps == 400

AUDIO_BR_STEPS == <<64, 96, 128, 160, 192, 256, 320, 384>>
AUDIO_BITRATE_OPTIONS == <<128, 160, 192, 256, 320>>

\* next_higher_bitrate of yt_creator.py: the first step above current_kbps
next_higher_bitrate(current_kbps) ==
    IF current_kbps = <<>> THEN 128
    ELSE LET above == {i \in DOMAIN AUDIO_BR_STEPS : AUDIO_BR_STEPS[i] > current_kbps[1]}
         IN IF above = {} THEN AUDIO_BR_STEPS[Len(AUDIO_BR_STEPS)]
            ELSE AUDIO_BR_STEPS[CHOOSE i \in above : \A j \in above : i <= j]

\* recommended_br of main of old/ytc.py, lines 527-538
recommended_br(original_br) ==
    IF original_br = <<>> \/ original_br = <<0>> THEN 192
    ELSE IF original_br[1] < 128 THEN 128
    ELSE IF original_br[1] <= 160 THEN 160
    ELSE IF original_br[1] <= 192 THEN 192
    ELSE IF original_br[1] <= 256 THEN 256
    ELSE 320

\* list.index and the loop of old/ytc.py lines 542-549: the 0-based place of
\* value in options, 0 when it is not there
IndexOr0(options, value) ==
    IF \E i \in DOMAIN options : options[i] = value
    THEN (CHOOSE i \in DOMAIN options : options[i] = value) - 1
    ELSE 0

\* the bitrate menu as main constructs it: its options and its first cursor
BitrateMenu(v, kbps) ==
    IF v = "new"
    THEN [options |-> AUDIO_BR_STEPS,
          cursor |-> clamp(IndexOr0(AUDIO_BR_STEPS, next_higher_bitrate(kbps)), 0,
                           Max(0, Len(AUDIO_BR_STEPS) - 1))]
    ELSE [options |-> AUDIO_BITRATE_OPTIONS,
          cursor |-> IndexOr0(AUDIO_BITRATE_OPTIONS, recommended_br(kbps))]

PreselectCalls ==
    {[fn |-> "preselect", v |-> vv, kbps |-> k] :
        vv \in MainVariants, k \in {<<>>} \cup {<<b>> : b \in 0..MaxKbps}}

PreselectInit ==
    /\ SupIdle
    /\ NavIdle
    /\ ListIdle
    /\ fnPc = "call"
    /\ out = <<>>
    /\ arg \in PreselectCalls
    /\ fn = arg.fn
    /\ variant = arg.v

\* main from the probe to the construction of the bitrate menu
Preselect ==
    /\ fnPc = "call" /\ fn = "preselect"
    /\ Return(<<BitrateMenu(arg.v, arg.kbps)>>)

PreselectNext == Preselect

PreselectSpec == PreselectInit /\ [][PreselectNext]_vars

\* C38: the first cursor of the bitrate menu is a valid index of the menu;
\* it stands on the smallest step strictly greater than the probed bitrate,
\* on the largest step when none is greater, and on 128 when the bitrate
\* is unknown; the options of the menu do not depend on the probed bitrate.
C38_BitratePreselection ==
    (fn = "preselect" /\ fnPc = "return") =>
        LET menu == out[1]
            steps == menu.options
            chosen == steps[menu.cursor + 1]
            above == {i \in DOMAIN steps : steps[i] > arg.kbps[1]}
        IN /\ menu.cursor \in 0..(Len(steps) - 1)
           /\ steps = BitrateMenu(arg.v, <<>>).options
           /\ IF arg.kbps = <<>> THEN chosen = 128
              ELSE IF above = {} THEN \A i \in DOMAIN steps : steps[i] <= chosen
              ELSE /\ chosen > arg.kbps[1]
                   /\ \A i \in above : chosen <= steps[i]

----------------------------------------------------------------------------
(* The pipes between the encoder and the poll loop.  pipe is the pipe on     *)
(* the encoder's stdout; arg.err counts what lies in the pipe on its stderr  *)
(* and arg.next is what the encoder does next.  The user presses no key.     *)

\* what a pipe holds before a write to it blocks, and what the encoder
\* writes before it ends
PipeCap == 2
MaxWrites == 4

\* the programs whose poll loop waits in readline
PipeVariants == {"new", "linux"}

\* Popen(..., stderr=subprocess.PIPE) of yt_creator.py line 287 gives the
\* diagnostics a pipe of their own; stderr=subprocess.STDOUT of
\* yt_creator_linux.py line 232 sends them down the stdout pipe
DiagOnStdout(v) == v = "linux"

EncoderSteps == {"progress", "diag", "exit"}

\* subprocess.Popen has returned and the loop is at its first readline
PipeInit ==
    /\ NavIdle
    /\ ListIdle
    /\ variant \in PipeVariants
    /\ pc = "readline"
    /\ term = "curses"
    /\ exc = "none"
    /\ proc = "running"
    /\ exitCode = <<>>
    /\ ignoresTerm = FALSE
    /\ pipe = <<>>
    /\ emitted = 0
    /\ kbd = <<>>
    /\ pressed = 0
    /\ keysRead = <<>>
    /\ sigs = <<>>
    /\ launches = 1
    /\ linesRead = <<>>
    /\ last_line = <<>>
    /\ rc = <<>>
    /\ msg = <<>>
    /\ reported = <<>>
    /\ cancelled = FALSE
    /\ drawFailed = FALSE
    /\ fn = "pipes"
    /\ fnPc = "idle"
    /\ arg \in [err : {0}, next : EncoderSteps \ {"exit"}]
    /\ out = <<>>

PipeUnchanged ==
    UNCHANGED <<variant, term, exc, ignoresTerm, kbd, pressed, keysRead, sigs, launches,
                last_line, msg, reported, cancelled, drawFailed, fn, fnPc, out,
                navVars, listVars>>

\* what the encoder may do after a write
NextSteps == IF emitted + 1 >= MaxWrites THEN {"exit"} ELSE EncoderSteps

\* the encoder writes a progress line to its stdout: the write returns only
\* when the pipe has room
EncoderWritesProgress ==
    /\ fn = "pipes" /\ proc = "running" /\ arg.next = "progress"
    /\ Len(pipe) < PipeCap
    /\ pipe' = Append(pipe, "progress")
    /\ emitted' = emitted + 1
    /\ \E nx \in NextSteps : arg' = [arg EXCEPT !.next = nx]
    /\ UNCHANGED <<pc, proc, exitCode, linesRead, rc>>
    /\ PipeUnchanged

\* the encoder writes a diagnostic line to its stderr
EncoderWritesDiag ==
    /\ fn = "pipes" /\ proc = "running" /\ arg.next = "diag"
    /\ IF DiagOnStdout(variant)
       THEN /\ Len(pipe) < PipeCap
            /\ pipe' = Append(pipe, "diag")
            /\ \E nx \in NextSteps : arg' = [arg EXCEPT !.next = nx]
       ELSE /\ arg.err < PipeCap
            /\ pipe' = pipe
            /\ \E nx \in NextSteps : arg' = [arg EXCEPT !.next = nx, !.err = arg.err + 1]
    /\ emitted' = emitted + 1
    /\ UNCHANGED <<pc, proc, exitCode, linesRead, rc>>
    /\ PipeUnchanged

\* the encoder ends
EncoderExits ==
    /\ fn = "pipes" /\ proc = "running" /\ arg.next = "exit"
    /\ proc' = "exited"
    /\ exitCode' = <<0>>
    /\ UNCHANGED <<pc, pipe, emitted, linesRead, rc, arg>>
    /\ PipeUnchanged

\* one pass of the loop: proc.stdout.readline() returns the oldest line of
\* the stdout pipe, or "" at end of file, and then poll() ends the loop; it
\* does not return while the pipe is empty and the encoder holds it open
ReadlinePass ==
    /\ fn = "pipes" /\ pc = "readline"
    /\ \/ /\ pipe # <<>>
          /\ linesRead' = Append(linesRead, Head(pipe))
          /\ pipe' = Tail(pipe)
          /\ UNCHANGED <<pc, rc>>
       \/ /\ pipe = <<>>
          /\ proc = "exited"
          /\ pc' = "result"
          /\ rc' = exitCode
          /\ UNCHANGED <<pipe, linesRead>>
    /\ UNCHANGED <<proc, exitCode, emitted, arg>>
    /\ PipeUnchanged

PipeNext ==
    \/ EncoderWritesProgress
    \/ EncoderWritesDiag
    \/ EncoderExits
    \/ ReadlinePass

PipeSpec == PipeInit /\ [][PipeNext]_vars

\* the encoder waits for room in a pipe
EncoderBlocked ==
    /\ proc = "running"
    /\ ~ENABLED (EncoderWritesProgress \/ EncoderWritesDiag \/ EncoderExits)

\* C39: while the encoder runs, it and the poll loop never wait for each
\* other: the encoder is not stopped at a write to a full pipe that the
\* loop does not read while the loop is stopped in readline on an empty one.
C39_NoPipeDeadlock ==
    (fn = "pipes" /\ pc = "readline") => ~(EncoderBlocked /\ ~ENABLED ReadlinePass)

----------------------------------------------------------------------------
(* A picker while the directory changes under it.  dirRaw is the directory   *)
(* as it is now, one slot per name; entries is the listing the picker read:  *)
(* the slot of each name (0 for "..") and whether it was listed as a         *)
(* directory (the "/" of yt_creator.py; FileSelector keeps the name only and *)
(* asks the filesystem again at Enter).                                      *)

\* the filter the picker is constructed with
RaceFilter == [given |-> TRUE, exts |-> {".mp3"}]

\* what a name of the directory can be now
RaceEntries == [kind : {"dir", "file", "gone"}, ext : {".mp3", ".txt"}]

\* the directories the picker can come to: the deepest hold no sub-directory
RaceContents(c) ==
    SeqsUpTo({e \in RaceEntries : e.kind # "gone" /\ (c < MaxDepth \/ e.kind # "dir")},
             MaxEntries)

\* how reading a directory can end
RaceReads == {"ok", "denied"}

\* is the name in the listing: list_dir_entries lines 95-105, update_files
ListedNow(v, e) ==
    /\ e.kind # "gone"
    /\ IF v = "new" THEN ListedNew(e, RaceFilter)
       ELSE ListedOld(e, extensions_init(RaceFilter))

ParentEntry == [name |-> 0, dir |-> TRUE]

\* list_dir_entries / update_files on the directory as it is now
Listing(v, rd, disk) ==
    LET slots == SelectSeq([i \in 1..Len(disk) |-> i], LAMBDA i : ListedNow(v, disk[i]))
        names == [k \in 1..Len(slots) |->
                     [name |-> slots[k], dir |-> disk[slots[k]].kind = "dir"]]
    IN IF rd = "ok" THEN <<ParentEntry>> \o names
       ELSE IF v = "new" THEN <<>> ELSE <<ParentEntry>>

\* next_path.is_dir() of FileSelector.enter: asked of the filesystem now;
\* choice.endswith("/") of FilePicker.run: read off the listing
IsDir(v, e, disk) == IF v = "new" THEN e.dir ELSE disk[e.name].kind = "dir"

RaceInit ==
    /\ SupIdle
    /\ FnIdle
    /\ variant \in Variants
    /\ navKind = (IF variant = "new" THEN "FilePicker" ELSE "FileSelector")
    /\ items = <<>>
    /\ cursor = 0
    /\ navPc = "getch"
    /\ scroll_offset = 0
    /\ visible_rows = 1
    /\ cwd \in Root..MaxDepth
    /\ result = NoResult
    /\ last = [key |-> "none", read |-> "none", cwd |-> 0, choice |-> "none"]
    /\ lsPc = "idle"
    /\ listFn = "none"
    /\ allowed_exts = RaceFilter
    /\ dirRaw \in RaceContents(cwd)
    /\ entries = Listing(variant, "ok", dirRaw)

RaceUnchanged ==
    UNCHANGED <<navKind, items, scroll_offset, visible_rows, last, lsPc, listFn,
                allowed_exts, supVars, fnVars>>

\* another process deletes an entry of the directory or puts something else
\* under its name, while the picker waits in getch
DiskChange ==
    /\ navPc = "getch"
    /\ navKind \in Pickers
    /\ allowed_exts = RaceFilter
    /\ \E i \in DOMAIN dirRaw :
          \E k \in {"dir", "file", "gone"} \ {dirRaw[i].kind} :
             /\ k = "dir" => cwd < MaxDepth
             /\ dirRaw' = [dirRaw EXCEPT ![i].kind = k]
    /\ UNCHANGED <<entries, cursor, navPc, cwd, result>>
    /\ RaceUnchanged

\* the picker goes to directory c, which holds disk, and lists it
RaceGoTo(c, disk) ==
    \E rd \in RaceReads :
       /\ cwd' = c
       /\ dirRaw' = disk
       /\ entries' = Listing(variant, rd, disk)
       /\ cursor' = IF variant = "new" THEN 0 ELSE Min(0, Len(entries') - 1)
       /\ UNCHANGED <<navPc, result>>

\* the cursor moves to index: FilePicker.run lists the directory again on
\* its next pass, FileSelector.run only draws
RaceMove(index) ==
    /\ IF variant = "new"
       THEN \E rd \in RaceReads :
               /\ entries' = Listing(variant, rd, dirRaw)
               /\ cursor' = clamp(index, 0, Max(0, Len(entries') - 1))
       ELSE /\ entries' = entries
            /\ cursor' = index
    /\ UNCHANGED <<dirRaw, cwd, navPc, result>>

\* one key of FilePicker.run (lines 184-204) or of FileSelector.run with
\* navigate and enter
RaceKey ==
    /\ navPc = "getch"
    /\ navKind \in Pickers
    /\ allowed_exts = RaceFilter
    /\ \E ch \in {"up", "down", "enter", "esc"} :
          CASE ch = "esc" ->
                  /\ navPc' = AfterCancel(navKind)
                  /\ result' = CancelReturn(navKind)
                  /\ UNCHANGED <<entries, cursor, dirRaw, cwd>>
            [] ch = "up" ->
                  RaceMove(IF variant = "new" THEN clamp(cursor - 1, 0, Len(entries) - 1)
                           ELSE Max(0, Min(cursor - 1, Len(entries) - 1)))
            [] ch = "down" ->
                  RaceMove(IF variant = "new" THEN clamp(cursor + 1, 0, Len(entries) - 1)
                           ELSE Max(0, Min(cursor + 1, Len(entries) - 1)))
            [] OTHER ->
                  IF PyIndex(entries, cursor) \notin DOMAIN entries
                  THEN \* self.entries[self.index] raises IndexError
                       /\ navPc' = "raised"
                       /\ UNCHANGED <<entries, cursor, dirRaw, cwd, result>>
                  ELSE LET e == entries[PyIndex(entries, cursor)]
                       IN IF e.name = 0
                          THEN \E disk \in RaceContents(Parent(cwd)) :
                                  RaceGoTo(Parent(cwd), disk)
                          ELSE IF IsDir(variant, e, dirRaw)
                          THEN IF dirRaw[e.name].kind = "dir"
                               THEN \E disk \in RaceContents(cwd + 1) :
                                       RaceGoTo(cwd + 1, disk)
                               ELSE \* os.listdir of what is no directory now
                                    /\ cwd' = cwd + 1
                                    /\ dirRaw' = <<>>
                                    /\ entries' = <<>>
                                    /\ cursor' = 0
                                    /\ UNCHANGED <<navPc, result>>
                          ELSE /\ navPc' = "done"
                               /\ result' = ReturnPath(cwd, e.name)
                               /\ UNCHANGED <<entries, cursor, dirRaw, cwd>>
    /\ RaceUnchanged

RaceNext ==
    \/ DiskChange
    \/ RaceKey

RaceSpec == RaceInit /\ [][RaceNext]_vars

\* the picker has returned a path
Picked == allowed_exts = RaceFilter /\ navPc = "done" /\ result.type = "path"

\* C40: the path a picker with a non-empty filter returns is that of an
\* entry of the directory that is not a directory (at worst one deleted
\* since) and whose extension is in the filter, also when entries were
\* deleted or replaced after the listing was read; it is never the parent
\* marker nor an entry that was listed as a directory.
C40_ReturnsFilteredFile ==
    Picked =>
        /\ result.int \in DOMAIN dirRaw
        /\ dirRaw[result.int].kind # "dir"
        /\ Lower(dirRaw[result.int].ext) \in RaceFilter.exts
        /\ \A i \in DOMAIN entries :
              entries[i].name = result.int => ~entries[i].dir

====
